---- MODULE Spec2Model ----
(***************************************************************************)
(* Journal Companion: the entry collection kept by the Home page           *)
(* (pages/index.tsx), the classification of an entry's text by             *)
(* analyzeJournalEntry (lib/gemini.ts) and the /api/analyze route          *)
(* (pages/api/analyze.ts), and the daily streak computed from the entries. *)
(*                                                                         *)
(* Text is a sequence of one-character strings, so that split, trim,       *)
(* toLowerCase and includes are computed character by character.           *)
(***************************************************************************)
EXTENDS Integers, Sequences, FiniteSets, TLC

Min(a, b) == IF a <= b THEN a ELSE b

Max(a, b) == IF a >= b THEN a ELSE b

Range(s) == {s[i] : i \in DOMAIN s}

\* ------------------------------------------------------------------------
\* JavaScript string operations
\* ------------------------------------------------------------------------

\* The characters \s matches among those the model's texts use.
Whitespace == {" ", "\n", "\t"}

UpperCase ==
  <<"A", "B", "C", "D", "E", "F", "G", "H", "I", "J", "K", "L", "M", "N", "O", "P", "Q", "R", "S", "T", "U", "V", "W", "X", "Y", "Z">>

LowerCase ==
  <<"a", "b", "c", "d", "e", "f", "g", "h", "i", "j", "k", "l", "m", "n", "o", "p", "q", "r", "s", "t", "u", "v", "w", "x", "y", "z">>

toLowerCaseChar(c) ==
  IF \E i \in DOMAIN UpperCase : UpperCase[i] = c
  THEN LowerCase[CHOOSE i \in DOMAIN UpperCase : UpperCase[i] = c]
  ELSE c

\* String.prototype.toLowerCase
toLowerCase(s) == [i \in 1..Len(s) |-> toLowerCaseChar(s[i])]

\* String.prototype.includes
includes(s, sub) ==
  \E i \in 1..(Len(s) - Len(sub) + 1) : SubSeq(s, i, i + Len(sub) - 1) = sub

\* String.prototype.trim
\* A trim that removes nothing.
trimNothing(s) == s

trim(s) ==
  LET keep == {i \in 1..Len(s) : s[i] \notin Whitespace}
  IN  IF keep = {} THEN <<>>
      ELSE SubSeq(s, CHOOSE i \in keep : \A j \in keep : i <= j,
                     CHOOSE i \in keep : \A j \in keep : i >= j)

\* s.split(/\s+/): the pieces between maximal runs of whitespace; a text that
\* starts or ends with whitespace yields an empty first or last piece.
RECURSIVE splitFrom(_, _, _)
splitFrom(s, i, cur) ==
  IF i > Len(s) THEN <<cur>>
  ELSE IF s[i] \in Whitespace
       THEN IF i > 1 /\ s[i - 1] \in Whitespace
            THEN splitFrom(s, i + 1, cur)
            ELSE <<cur>> \o splitFrom(s, i + 1, <<>>)
       ELSE splitFrom(s, i + 1, Append(cur, s[i]))

splitWhitespace(s) == splitFrom(s, 1, <<>>)

\* Array.prototype.slice(from, to) with 0 <= from
slice(a, from, to) == SubSeq(a, from + 1, Min(to, Len(a)))

\* content.split(/\s+/).filter(word => word.length > 0)
words(content) == SelectSeq(splitWhitespace(content), LAMBDA w : Len(w) > 0)

\* ------------------------------------------------------------------------
\* The keyword heuristic (the same code in analyze.ts and in gemini.ts)
\* ------------------------------------------------------------------------

positiveWords ==
  << <<"h", "a", "p", "p", "y">>,
     <<"j", "o", "y">>,
     <<"e", "x", "c", "i", "t", "e", "d">>,
     <<"g", "r", "a", "t", "e", "f", "u", "l">>,
     <<"l", "o", "v", "e">>,
     <<"w", "o", "n", "d", "e", "r", "f", "u", "l">>,
     <<"a", "m", "a", "z", "i", "n", "g">>,
     <<"g", "r", "e", "a", "t">>,
     <<"g", "o", "o", "d">>,
     <<"p", "o", "s", "i", "t", "i", "v", "e">> >>

negativeWords ==
  << <<"s", "a", "d">>,
     <<"a", "n", "g", "r", "y">>,
     <<"f", "r", "u", "s", "t", "r", "a", "t", "e", "d">>,
     <<"w", "o", "r", "r", "i", "e", "d">>,
     <<"a", "n", "x", "i", "o", "u", "s">>,
     <<"s", "t", "r", "e", "s", "s">>,
     <<"b", "a", "d">>,
     <<"t", "e", "r", "r", "i", "b", "l", "e">>,
     <<"a", "w", "f", "u", "l">>,
     <<"n", "e", "g", "a", "t", "i", "v", "e">> >>

clientThemeTriggers ==
  << [label |-> "work", triggers |-> << <<"w", "o", "r", "k">>, <<"j", "o", "b">>, <<"c", "a", "r", "e", "e", "r">> >>],
     [label |-> "family", triggers |-> << <<"f", "a", "m", "i", "l", "y">>, <<"p", "a", "r", "e", "n", "t">>, <<"c", "h", "i", "l", "d">> >>],
     [label |-> "health", triggers |-> << <<"h", "e", "a", "l", "t", "h">>, <<"e", "x", "e", "r", "c", "i", "s", "e">>, <<"s", "l", "e", "e", "p">> >>],
     [label |-> "creativity", triggers |-> << <<"c", "r", "e", "a", "t", "i", "v", "e">>, <<"a", "r", "t">>, <<"m", "u", "s", "i", "c">> >>],
     [label |-> "personal growth", triggers |-> << <<"l", "e", "a", "r", "n">>, <<"g", "r", "o", "w">>, <<"i", "m", "p", "r", "o", "v", "e">> >>],
     [label |-> "relationships", triggers |-> << <<"f", "r", "i", "e", "n", "d">>, <<"r", "e", "l", "a", "t", "i", "o", "n", "s", "h", "i", "p">>, <<"l", "o", "v", "e">> >>],
     [label |-> "stress", triggers |-> << <<"s", "t", "r", "e", "s", "s">>, <<"a", "n", "x", "i", "e", "t", "y">>, <<"w", "o", "r", "r", "y">> >>],
     [label |-> "gratitude", triggers |-> << <<"t", "h", "a", "n", "k", "f", "u", "l">>, <<"g", "r", "a", "t", "e", "f", "u", "l">>, <<"b", "l", "e", "s", "s", "e", "d">> >>] >>

serverThemeTriggers ==
  << [label |-> "work", triggers |-> << <<"w", "o", "r", "k">>, <<"j", "o", "b">>, <<"c", "a", "r", "e", "e", "r">> >>],
     [label |-> "family", triggers |-> << <<"f", "a", "m", "i", "l", "y">>, <<"p", "a", "r", "e", "n", "t">>, <<"c", "h", "i", "l", "d">> >>],
     [label |-> "relationship", triggers |-> << <<"f", "r", "i", "e", "n", "d">>, <<"r", "e", "l", "a", "t", "i", "o", "n", "s", "h", "i", "p">>, <<"l", "o", "v", "e">> >>],
     [label |-> "creativity", triggers |-> << <<"c", "r", "e", "a", "t", "i", "v", "e">>, <<"a", "r", "t">>, <<"w", "r", "i", "t", "e">> >>],
     [label |-> "stress", triggers |-> << <<"s", "t", "r", "e", "s", "s">>, <<"a", "n", "x", "i", "e", "t", "y">>, <<"w", "o", "r", "r", "y">> >>],
     [label |-> "growth", triggers |-> << <<"g", "r", "o", "w">>, <<"l", "e", "a", "r", "n">>, <<"i", "m", "p", "r", "o", "v", "e">> >>],
     [label |-> "health", triggers |-> << <<"h", "e", "a", "l", "t", "h">>, <<"e", "x", "e", "r", "c", "i", "s", "e">>, <<"s", "l", "e", "e", "p">> >>],
     [label |-> "gratitude", triggers |-> << <<"t", "h", "a", "n", "k", "f", "u", "l">>, <<"g", "r", "a", "t", "e", "f", "u", "l">>, <<"b", "l", "e", "s", "s", "e", "d">> >>] >>

\* A count of every keyword a word includes, not of the words.
countHitsPerKeyword(ws, keywords) ==
  Cardinality({<<i, k>> \in (DOMAIN ws) \X (DOMAIN keywords) :
                 includes(toLowerCase(ws[i]), keywords[k])})

\* words.forEach: the number of words whose lower-cased form includes some
\* keyword of the list (a word counts once per list).
countHits(ws, keywords) ==
  Cardinality({i \in DOMAIN ws :
                 \E k \in DOMAIN keywords : includes(toLowerCase(ws[i]), keywords[k])})

\* let sentiment = 'neutral'; if ... else if ... else if ...
keywordSentiment(positiveCount, negativeCount) ==
  IF positiveCount > negativeCount THEN "positive"
  ELSE IF negativeCount > positiveCount THEN "negative"
  ELSE IF positiveCount = negativeCount /\ positiveCount > 0 THEN "mixed"
  ELSE "neutral"

\* The chain of `if (lowerContent.includes(..) || ..) themes.push(label)`:
\* the labels of the rows with a trigger in the text, in the table's order.
pushThemes(lowerContent, table) ==
  LET fired == SelectSeq(table, LAMBDA row :
                 \E k \in DOMAIN row.triggers : includes(lowerContent, row.triggers[k]))
  IN  [i \in 1..Len(fired) |-> fired[i].label]

\* gemini.ts extractSimpleThemes
extractSimpleThemes(content) ==
  slice(pushThemes(toLowerCase(content), clientThemeTriggers), 0, 5)

\* The catch block of analyzeJournalEntry (gemini.ts): the client's fallback.
clientFallbackAnalysis(content) ==
  LET ws            == words(content)
      wordCount     == Len(ws)
      positiveCount == countHits(ws, positiveWords)
      negativeCount == countHits(ws, negativeWords)
      sentiment     == keywordSentiment(positiveCount, negativeCount)
      themes        == extractSimpleThemes(content)
  IN  [sentiment          |-> sentiment,
       themes             |-> themes,
       insights           |-> <<"This entry shows ", sentiment, " emotions with ",
                                ToString(wordCount), " words.">>,
       wordCount          |-> wordCount,
       emotionalIntensity |-> Min(positiveCount + negativeCount, 10),
       keyTopics          |-> slice(themes, 0, 3)]

SupportiveDefault ==
  <<"Thank you for sharing your thoughts. Every entry helps you understand yourself better.">>

\* analyze.ts generateFallbackAnalysis: the server's fallback.
generateFallbackAnalysis(content) ==
  LET ws            == words(content)
      wordCount     == Len(ws)
      positiveCount == countHits(ws, positiveWords)
      negativeCount == countHits(ws, negativeWords)
      sentiment     == keywordSentiment(positiveCount, negativeCount)
      themes        == pushThemes(toLowerCase(content), serverThemeTriggers)
  IN  [sentiment          |-> sentiment,
       themes             |-> IF Len(themes) > 0 THEN themes ELSE <<"reflection">>,
       insights           |-> SupportiveDefault,
       wordCount          |-> wordCount,
       emotionalIntensity |-> Min(positiveCount + negativeCount, 10),
       keyTopics          |-> slice(themes, 0, 3)]

\* ------------------------------------------------------------------------
\* The remote classifier's answer and its validation (analyze.ts handler)
\* ------------------------------------------------------------------------

\* A JSON value where the handler expects a number. A number is kept in
\* tenths (25 is 2.5); a string either starts with an integer or does not.
JsUndefined == [kind |-> "undefined", tenths |-> 0]

JsNumber(tenths) == [kind |-> "number", tenths |-> tenths]

JsNumericString(n) == [kind |-> "numericString", tenths |-> n * 10]

JsOtherString == [kind |-> "otherString", tenths |-> 0]

\* A JSON value where the handler expects an array.
JsArray(items) == [isArray |-> TRUE, items |-> items]

JsNotArray == [isArray |-> FALSE, items |-> <<>>]

\* parseInt(v): the integer the text of v starts with (a number is cut
\* toward zero), NaN when there is none.
parseInt(v) ==
  IF v.kind \in {"number", "numericString"}
  THEN [nan |-> FALSE,
        n   |-> IF v.tenths >= 0 THEN v.tenths \div 10 ELSE -((-v.tenths) \div 10)]
  ELSE [nan |-> TRUE, n |-> 0]

\* parseInt(v) || dflt: NaN and 0 are falsy.
parseIntOr(v, dflt) ==
  LET p == parseInt(v) IN IF p.nan \/ p.n = 0 THEN dflt ELSE p.n

\* const validatedAnalysis = {...}: `analysis` is the object parsed from the
\* model's text. A string field is "" when missing (or otherwise falsy).
validatedAnalysis(analysis, content) ==
  [sentiment          |-> IF analysis.sentiment # "" THEN analysis.sentiment ELSE "neutral",
   themes             |-> IF analysis.themes.isArray
                          THEN slice(analysis.themes.items, 0, 5)
                          ELSE <<"reflection">>,
   insights           |-> IF analysis.insights # "" THEN <<analysis.insights>>
                          ELSE SupportiveDefault,
   wordCount          |-> parseIntOr(analysis.wordCount, Len(words(content))),
   emotionalIntensity |-> Min(Max(parseIntOr(analysis.emotionalIntensity, 5), 1), 10),
   keyTopics          |-> IF analysis.keyTopics.isArray
                          THEN slice(analysis.keyTopics.items, 0, 3)
                          ELSE <<>>]

\* What the language model may answer, after JSON.parse: one well-formed
\* answer and answers with missing, mistyped, repeated or out-of-range fields.
LlmAnswers ==
  { [sentiment |-> "positive", themes |-> JsArray(<<"work", "family">>),
     insights |-> "A gentle insight", wordCount |-> JsNumber(70),
     emotionalIntensity |-> JsNumber(60), keyTopics |-> JsArray(<<"work">>)],
    [sentiment |-> "", themes |-> JsNotArray,
     insights |-> "", wordCount |-> JsUndefined,
     emotionalIntensity |-> JsUndefined, keyTopics |-> JsNotArray],
    [sentiment |-> "joyful", themes |-> JsArray(<<"work", "work">>),
     insights |-> "A gentle insight", wordCount |-> JsNumber(-50),
     emotionalIntensity |-> JsNumber(110),
     keyTopics |-> JsArray(<<"work", "rest", "play", "sleep">>)],
    [sentiment |-> "mixed",
     themes |-> JsArray(<<"work", "family", "stress", "health", "growth", "gratitude">>),
     insights |-> "A gentle insight", wordCount |-> JsNumber(25),
     emotionalIntensity |-> JsNumber(-30), keyTopics |-> JsNotArray],
    [sentiment |-> "negative", themes |-> JsArray(<<>>),
     insights |-> "", wordCount |-> JsNumber(0),
     emotionalIntensity |-> JsOtherString, keyTopics |-> JsArray(<<>>)],
    [sentiment |-> "neutral", themes |-> JsArray(<<"stress">>),
     insights |-> "A gentle insight", wordCount |-> JsNumericString(12),
     emotionalIntensity |-> JsNumericString(3), keyTopics |-> JsArray(<<"stress">>)] }

NoAnswer == CHOOSE a \in LlmAnswers : a.sentiment = ""

\* One call of /api/analyze as the client sees it.
\*   net: "networkError" fetch rejects; "notOk" the platform answers with a
\*        non-2xx status; "badBody" the body is not JSON; "ok" the handler's
\*        answer arrives.
\*   llm: "throws" generateContent rejects; "noJson" the text holds no {...};
\*        "badJson" JSON.parse throws; "json" `answer` is the parsed object.
RemoteOutcomes ==
  [net : {"networkError", "notOk", "badBody"}, llm : {"throws"}, answer : {NoAnswer}]
    \cup [net : {"ok"}, llm : {"throws", "noJson", "badJson"}, answer : {NoAnswer}]
    \cup [net : {"ok"}, llm : {"json"}, answer : LlmAnswers]

\* analyze.ts handler, for the POST the client sends.
apiAnalyze(content, remote) ==
  IF content = <<>>
  THEN [status |-> 400, body |-> [error |-> "Content is required"]]
  ELSE IF remote.llm = "json"
       THEN [status |-> 200, body |-> validatedAnalysis(remote.answer, content)]
       ELSE [status |-> 200, body |-> generateFallbackAnalysis(content)]

Fulfilled(value) == [state |-> "fulfilled", value |-> value]

Rejected ==
  [state |-> "rejected",
   value |-> [sentiment |-> "", themes |-> <<>>, insights |-> <<>>, wordCount |-> 0,
              emotionalIntensity |-> 0, keyTopics |-> <<>>]]

\* A catch block that rethrows instead of classifying locally.
analyzeJournalEntryRethrows(content, remote) ==
  IF remote.net = "ok" /\ apiAnalyze(content, remote).status = 200
  THEN Fulfilled(apiAnalyze(content, remote).body)
  ELSE Rejected

\* gemini.ts analyzeJournalEntry: the promise it returns.
analyzeJournalEntry(content, remote) ==
  IF remote.net = "networkError"
  THEN Fulfilled(clientFallbackAnalysis(content))
  ELSE LET response == IF remote.net = "notOk"
                       THEN [status |-> 500, body |-> [error |-> "unavailable"]]
                       ELSE apiAnalyze(content, remote)
       IN  IF response.status # 200
           THEN Fulfilled(clientFallbackAnalysis(content))
           ELSE IF remote.net = "badBody"
                THEN Fulfilled(clientFallbackAnalysis(content))
                ELSE Fulfilled(response.body)

\* ------------------------------------------------------------------------
\* Texts
\* ------------------------------------------------------------------------

\* positive, no theme, upper case
T_goodDay == <<"G", "o", "o", "d", " ", "d", "a", "y">>

\* negative, one token
T_bad == <<"b", "a", "d">>

\* one hit on each side; newline and a double space
T_mixed == <<"s", "o", " ", "h", "a", "p", "p", "y", "\n", "b", "u", "t", " ", " ", "s", "a", "d">>

\* no keyword; leading and trailing space
T_walk == <<" ", "a", " ", "w", "a", "l", "k", " ">>

\* themes work and stress, negative
T_workStress == <<"w", "o", "r", "k", " ", "s", "t", "r", "e", "s", "s">>

\* one token holding a positive and a negative keyword
T_loveBad == <<"l", "o", "v", "e", "/", "b", "a", "d", " ", "j", "o", "b">>

\* upper case trigger; tab
T_family == <<"F", "a", "m", "i", "l", "y", "\t", "a", "r", "t">>

\* seven theme triggers
T_many == <<"j", "o", "b", " ", "c", "h", "i", "l", "d", " ", "f", "r", "i", "e", "n", "d", " ", "w", "o", "r", "r", "y", " ", "s", "l", "e", "e", "p", " ", "m", "u", "s", "i", "c", " ", "g", "r", "o", "w">>

\* positive keyword that is also a theme trigger
T_grateful == <<"g", "r", "a", "t", "e", "f", "u", "l", " ", "p", "a", "r", "e", "n", "t", "s">>

\* trigger of the server table only
T_write == <<"I", " ", "w", "r", "i", "t", "e">>

\* two positive hits, one negative
T_happyHappy == <<"h", "a", "p", "p", "y", " ", "h", "a", "p", "p", "y", " ", "s", "a", "d">>

\* whitespace only
T_blank == <<" ", "\n">>

\* empty
T_empty == <<>>

\* one word with two positive keywords, two negative words
T_goodGreat == <<"g", "o", "o", "d", "-", "g", "r", "e", "a", "t", " ", "b", "a", "d", " ", "s", "a", "d">>

\* ------------------------------------------------------------------------
\* Dates (JavaScript Date), with the clock in ticks
\* ------------------------------------------------------------------------

\* Ticks in a day: the clock's resolution.
TicksPerDay == 2

\* The last day the model's calendar reaches, counted from EpochDate.
MaxDay == 100

\* The UTC date of tick 0.
EpochDate == [y |-> 2024, m |-> 9, d |-> 28]

daysInMonth(y, m) ==
  IF m \in {4, 6, 9, 11} THEN 30
  ELSE IF m = 2 THEN (IF y % 4 = 0 /\ (y % 100 # 0 \/ y % 400 = 0) THEN 29 ELSE 28)
  ELSE 31

nextDate(date) ==
  IF date.d < daysInMonth(date.y, date.m) THEN [date EXCEPT !.d = date.d + 1]
  ELSE IF date.m < 12 THEN [date EXCEPT !.m = date.m + 1, !.d = 1]
  ELSE [y |-> date.y + 1, m |-> 1, d |-> 1]

\* The calendar: the date of each day counted from EpochDate.
RECURSIVE datesFrom(_, _)
datesFrom(date, n) == IF n = 0 THEN <<date>> ELSE <<date>> \o datesFrom(nextDate(date), n - 1)

Calendar == datesFrom(EpochDate, MaxDay)

dateOfDay(day) == Calendar[day + 1]

\* The days of a common year before each month.
DaysBeforeMonth == <<0, 31, 59, 90, 120, 151, 181, 212, 243, 273, 304, 334>>

\* The number of days from 1 January to the date.
dayOfYear(date) ==
  DaysBeforeMonth[date.m] + date.d - 1
    + (IF date.m > 2 /\ daysInMonth(date.y, 2) = 29 THEN 1 ELSE 0)

\* The days of the years from EpochDate's to the year before y.
RECURSIVE daysToYear(_)
daysToYear(y) ==
  IF y <= EpochDate.y THEN 0
  ELSE daysToYear(y - 1) + 337 + daysInMonth(y - 1, 2)

\* The day of a date, counted from EpochDate: Calendar[dayOfDate(date) + 1]
\* is the date.
dayOfDate(date) == daysToYear(date.y) + dayOfYear(date) - dayOfYear(EpochDate)

\* Date.prototype.toISOString: the UTC date and the time of day.
toISOString(t) == [date |-> dateOfDay(t \div TicksPerDay), tick |-> t % TicksPerDay]

\* new Date(isoString).getTime()
parseISOString(s) == dayOfDate(s.date) * TicksPerDay + s.tick

\* getDateKey: getFullYear() + '-' + (getMonth() + 1) + '-' + getDate() of the
\* instant, in local time; the numbers are not zero-padded.
getDateKey(dateStr, zone) ==
  dateOfDay((parseISOString(dateStr) + zone) \div TicksPerDay)

\* new Date(key).getTime() for a key 'y-m-d' (V8): a key that happens to be
\* zero-padded ('2024-10-10') is an ISO date and is read as UTC midnight,
\* any other ('2024-10-9') is read by the legacy parser as local midnight.
parseDateKey(key, zone) ==
  IF key.m >= 10 /\ key.d >= 10
  THEN dayOfDate(key) * TicksPerDay
  ELSE dayOfDate(key) * TicksPerDay - zone

\* cursor.setDate(cursor.getDate() - 1): the same local time a day earlier.
setDateMinusOne(t) == t - TicksPerDay

\* Array.from(keys) without the Set: repeated keys are kept.
keepRepeated(keys) == keys

\* Array.from(new Set(keys)): first occurrences, in order.
RECURSIVE uniqueInOrder(_)
uniqueInOrder(keys) ==
  IF keys = <<>> THEN <<>>
  ELSE LET rest == uniqueInOrder(SubSeq(keys, 1, Len(keys) - 1))
           last == keys[Len(keys)]
       IN  IF last \in Range(rest) THEN rest ELSE Append(rest, last)

\* The comparator with a and b exchanged: oldest first.
RECURSIVE sortAscending(_, _)
sortAscending(keys, zone) ==
  IF keys = <<>> THEN <<>>
  ELSE LET sorted == sortAscending(SubSeq(keys, 1, Len(keys) - 1), zone)
           x      == keys[Len(keys)]
           before == {i \in DOMAIN sorted :
                        parseDateKey(sorted[i], zone) - parseDateKey(x, zone) > 0}
           at     == IF before = {} THEN Len(sorted) + 1
                     ELSE CHOOSE i \in before : \A j \in before : i <= j
       IN  SubSeq(sorted, 1, at - 1) \o <<x>> \o SubSeq(sorted, at, Len(sorted))

\* .sort((a, b) => new Date(b).getTime() - new Date(a).getTime()), stable.
RECURSIVE sortDescending(_, _)
sortDescending(keys, zone) ==
  IF keys = <<>> THEN <<>>
  ELSE LET sorted == sortDescending(SubSeq(keys, 1, Len(keys) - 1), zone)
           x      == keys[Len(keys)]
           before == {i \in DOMAIN sorted :
                        parseDateKey(x, zone) - parseDateKey(sorted[i], zone) > 0}
           at     == IF before = {} THEN Len(sorted) + 1
                     ELSE CHOOSE i \in before : \A j \in before : i <= j
       IN  SubSeq(sorted, 1, at - 1) \o <<x>> \o SubSeq(sorted, at, Len(sorted))

uniqueDaysOf(es, zone) ==
  sortDescending(
    uniqueInOrder([i \in DOMAIN es |-> getDateKey(es[i].timestamp, zone)]), zone)

\* The loop without its yesterday branch: a day that differs ends it.
RECURSIVE streakLoopTodayOnly(_, _, _, _, _, _, _)
streakLoopTodayOnly(uniqueDays, i, streak, cursor, cursorKey, clock, zone) ==
  IF i >= Len(uniqueDays) THEN streak
  ELSE IF uniqueDays[i + 1] = cursorKey
       THEN streakLoopTodayOnly(uniqueDays, i + 1, streak + 1, setDateMinusOne(cursor),
                                getDateKey(toISOString(setDateMinusOne(cursor)), zone),
                                clock, zone)
       ELSE streak

\* The loop moving its cursor to the next day with an entry instead of
\* ending at a day that differs.
RECURSIVE streakLoopSkipsGap(_, _, _, _, _, _, _)
streakLoopSkipsGap(uniqueDays, i, streak, cursor, cursorKey, clock, zone) ==
  IF i >= Len(uniqueDays) THEN streak
  ELSE IF uniqueDays[i + 1] = cursorKey \/ streak > 0
       THEN streakLoopSkipsGap(uniqueDays, i + 1, streak + 1, setDateMinusOne(cursor),
                               getDateKey(toISOString(setDateMinusOne(cursor)), zone),
                               clock, zone)
       ELSE LET yesterday == setDateMinusOne(clock)
                yKey      == getDateKey(toISOString(yesterday), zone)
            IN  IF streak = 0 /\ uniqueDays[1] = yKey
                THEN streakLoopSkipsGap(uniqueDays, 0, streak, yesterday, yKey, clock, zone)
                ELSE streak

\* The for loop of calculateCurrentStreak; i counts from 0.
RECURSIVE streakLoop(_, _, _, _, _, _, _)
streakLoop(uniqueDays, i, streak, cursor, cursorKey, clock, zone) ==
  IF i >= Len(uniqueDays) THEN streak
  ELSE IF uniqueDays[i + 1] = cursorKey
       THEN streakLoop(uniqueDays, i + 1, streak + 1, setDateMinusOne(cursor),
                       getDateKey(toISOString(setDateMinusOne(cursor)), zone),
                       clock, zone)
       ELSE LET yesterday == setDateMinusOne(clock)
                yKey      == getDateKey(toISOString(yesterday), zone)
            IN  IF streak = 0 /\ uniqueDays[1] = yKey
                THEN streakLoop(uniqueDays, 0, streak, yesterday, yKey, clock, zone)
                ELSE streak

\* calculateCurrentStreak(entries), run when the clock reads `clock` in a
\* time zone `zone` ticks ahead of UTC.
calculateCurrentStreak(es, clock, zone) ==
  IF Len(es) = 0 THEN 0
  ELSE streakLoop(uniqueDaysOf(es, zone), 0, 0, clock,
                  getDateKey(toISOString(clock), zone), clock, zone)

\* ------------------------------------------------------------------------
\* State
\* ------------------------------------------------------------------------

VARIABLES
  entries,       \* Home: useState entries, newest first
  storage,       \* localStorage item 'journalEntries', <<>> when absent
  currentEntry,  \* Home: useState currentEntry, the text in the editor
  isLoading,     \* Home: useState isLoading
  inflight,      \* saveEntry calls suspended at `await analyzeJournalEntry`
  now,           \* the clock, in ticks
  tz,            \* local time minus UTC, in ticks
  mounted,       \* the load effect of Home has run
  currentStreak, \* the streak shown by the last render
  accepted,      \* history: the entries saveEntry created, oldest first
  analysis,      \* the last analyzeJournalEntry call and the promise it returned
  timeRange,     \* JournalDashboard: useState timeRange
  dashboard,     \* JournalDashboard: the memos of the last render
  selectedPeriod, \* InsightSummary: useState selectedPeriod
  insights,      \* InsightSummary: the memo of the last render
  suggestions,   \* the request given to diversifySuggestions and its calls, oldest first
  modal,         \* Home: useState selectedEntry, modalAnalysis, modalSuggestions, modalLoading
  modalCalls     \* openEntryModal calls suspended at `await analyzeJournalEntry`, oldest first

homeVars == <<entries, storage, currentEntry, isLoading, inflight, now, tz, mounted,
              currentStreak, accepted, analysis>>

modalVars == <<modal, modalCalls>>

viewVars == <<timeRange, dashboard, selectedPeriod, insights, suggestions, modalVars>>

vars == <<homeVars, viewVars>>

\* A memo that has not been computed.
NotRendered == [rendered |-> FALSE]

\* No call of diversifySuggestions has been made.
NoSuggestions == [request |-> [given |-> FALSE], calls |-> <<>>]

\* useState<JournalEntryType | null>(null)
Null == [id |-> "null"]

\* The modal's state after useState(null), useState(''), useState([]),
\* useState(false).
ModalClosed ==
  [selectedEntry |-> Null, modalAnalysis |-> <<>>, modalSuggestions |-> <<>>,
   modalLoading |-> FALSE]

\* The components other than the editor as they are before their first
\* render.
ViewsIdle ==
  /\ timeRange = "30d"
  /\ dashboard = NotRendered
  /\ selectedPeriod = "week"
  /\ insights = NotRendered
  /\ suggestions = NoSuggestions
  /\ modal = ModalClosed
  /\ modalCalls = <<>>

NoCall == [remote |-> [net |-> "none", llm |-> "none", answer |-> NoAnswer],
           promise |-> [state |-> "pending", value |-> Rejected.value]]

\* ------------------------------------------------------------------------
\* The streak shown after the stored entries are loaded
\* ------------------------------------------------------------------------

\* The most entries a stored list holds.
MaxStored == 3

\* The day (counted from EpochDate) on which the page is opened: 2024-10-10,
\* so that today's key is zero-padded and yesterday's is not.
OpenDay == 12

Zones == {-(TicksPerDay \div 2), 0, TicksPerDay \div 2}

StoredInstants ==
  {day * TicksPerDay + k : day \in (OpenDay - 3)..(OpenDay + 1), k \in {0, TicksPerDay - 1}}

OpenInstants == {OpenDay * TicksPerDay, OpenDay * TicksPerDay + TicksPerDay - 1}

\* An entry as a finished saveEntry leaves it in storage.
StoredEntry(t) ==
  [id |-> ToString(t), content |-> T_bad, timestamp |-> toISOString(t),
   sentiment |-> "negative", themes |-> <<"reflection">>, wordCount |-> 1,
   aiInsights |-> SupportiveDefault]

\* Stored lists in any order: the clock may have been set between two saves.
StoredLists ==
  UNION {{[i \in 1..n |-> StoredEntry(ts[i])] : ts \in [1..n -> StoredInstants]} :
           n \in 0..MaxStored}

InitStreak ==
  /\ storage \in StoredLists
  /\ now \in OpenInstants
  /\ tz \in Zones
  /\ mounted = FALSE
  /\ entries = <<>>
  /\ currentStreak = 0
  /\ currentEntry = <<>>
  /\ isLoading = FALSE
  /\ inflight = {}
  /\ accepted = <<>>
  /\ analysis = NoCall
  /\ ViewsIdle

\* useEffect(() => {...}, []): load the entries from localStorage; the page
\* renders again and shows the streak of the loaded entries.
Mount ==
  /\ ~mounted
  /\ mounted' = TRUE
  /\ entries' = IF storage # <<>> THEN storage ELSE entries
  /\ currentStreak' = calculateCurrentStreak(entries', now, tz)
  /\ UNCHANGED <<storage, currentEntry, isLoading, inflight, now, tz, accepted, analysis>>
  /\ UNCHANGED viewVars

NextStreak == Mount

SpecStreak == InitStreak /\ [][NextStreak]_vars

\* The local calendar day (counted from EpochDate) an entry was written on.
LocalDay(t) == (t + tz) \div TicksPerDay

EntryDays == {LocalDay(parseISOString(entries[i].timestamp)) : i \in DOMAIN entries}

Today == LocalDay(now)

MostRecentDay == CHOOSE d \in EntryDays : \A e \in EntryDays : e <= d

\* The number of consecutive days with an entry, counted back from `start`.
RunBackFrom(start) ==
  CHOOSE k \in 0..Cardinality(EntryDays) :
    /\ \A j \in 0..(k - 1) : (start - j) \in EntryDays
    /\ (start - k) \notin EntryDays

Rendered == mounted /\ currentStreak = calculateCurrentStreak(entries, now, tz)

\* C1: when the most recent day with an entry is today or yesterday, the
\* streak is the number k of consecutive days with an entry counted back from
\* that day (days start .. start-(k-1) have an entry, day start-k has none),
\* a day with several entries counting once; entries today, yesterday and the
\* day before, and nothing earlier, give 3.
C1_StreakIsRunFromAnchor ==
  (mounted /\ entries # <<>> /\ MostRecentDay \in {Today, Today - 1}) =>
    /\ currentStreak = RunBackFrom(MostRecentDay)
    /\ (EntryDays = {Today, Today - 1, Today - 2} => currentStreak = 3)

C1_Witness ==
  /\ mounted
  /\ Len(entries) = 3
  /\ EntryDays = {Today, Today - 1}
  /\ currentStreak = 2

\* C2: with no entry today and the most recent entry yesterday the streak is
\* counted from yesterday, not 0: entries yesterday and the day before, and
\* nothing else, give 2.
C2_AnchoredAtYesterday ==
  (mounted /\ entries # <<>> /\ MostRecentDay = Today - 1) =>
    /\ currentStreak >= 1
    /\ (EntryDays = {Today - 1, Today - 2} => currentStreak = 2)

C2_Witness ==
  /\ mounted
  /\ EntryDays = {Today - 1, Today - 2}
  /\ currentStreak = 2

\* C3: the streak is 0 for an empty list and whenever the most recent day
\* with an entry is neither today nor yesterday (a day in the future
\* included), whatever other entries there are.
C3_ZeroWithoutAnchor ==
  (mounted /\ (entries = <<>> \/ MostRecentDay \notin {Today, Today - 1})) =>
    currentStreak = 0

C3_Witness ==
  /\ mounted
  /\ entries # <<>>
  /\ MostRecentDay = Today + 1
  /\ {Today, Today - 1} \subseteq EntryDays
  /\ currentStreak = 0

\* C4: the walk stops at the first day without an entry: every counted day
\* has an entry, no day at or before the first gap is counted, and entries
\* today, yesterday and three days ago (none two days ago) give 2.
C4_StopsAtFirstGap ==
  (mounted /\ entries # <<>> /\ MostRecentDay \in {Today, Today - 1}) =>
    /\ \A j \in 0..(currentStreak - 1) : (MostRecentDay - j) \in EntryDays
    /\ \A g \in (MostRecentDay - Len(entries))..MostRecentDay :
         g \notin EntryDays => currentStreak <= MostRecentDay - g
    /\ (EntryDays = {Today, Today - 1, Today - 3} => currentStreak = 2)

C4_Witness ==
  /\ mounted
  /\ EntryDays = {Today, Today - 1, Today - 3}
  /\ currentStreak = 2

\* ------------------------------------------------------------------------
\* The Home page: writing, saving and classifying entries
\* ------------------------------------------------------------------------

\* Ticks of the clock the model follows after the page is opened.
MaxTicks == 2

\* What the user types into the editor.
EditorTexts == {T_goodDay, T_workStress, T_blank}

\* The remote outcomes a save may meet: a failed call, the server's own
\* fallback, and three answers of the language model.
SaveOutcomes ==
  {r \in RemoteOutcomes :
     \/ r.net = "networkError"
     \/ r.net = "ok" /\ r.llm = "throws"
     \/ r.net = "ok" /\ r.llm = "json" /\ r.answer.sentiment \in {"positive", "", "joyful"}}

Init ==
  /\ storage \in {<<>>, <<StoredEntry((OpenDay - 1) * TicksPerDay)>>}
  /\ now = OpenDay * TicksPerDay
  /\ tz \in Zones
  /\ mounted = FALSE
  /\ entries = <<>>
  /\ currentStreak = 0
  /\ currentEntry = <<>>
  /\ isLoading = FALSE
  /\ inflight = {}
  /\ accepted = <<>>
  /\ analysis = NoCall
  /\ ViewsIdle

\* onChange of the editor: setCurrentEntry(text). Typing takes time: the
\* clock has moved on when the text is there.
SetCurrentEntry(text) ==
  /\ mounted
  /\ now < OpenDay * TicksPerDay + MaxTicks
  /\ text # currentEntry
  /\ currentEntry' = text
  /\ now' = now + 1
  /\ currentStreak' = calculateCurrentStreak(entries, now', tz)
  /\ UNCHANGED <<entries, storage, isLoading, inflight, tz, mounted, accepted, analysis>>
  /\ UNCHANGED viewVars

\* A saveEntry that puts the new list in memory and does not write it to
\* localStorage.
saveEntryMemoryOnly(content) ==
  IF trim(content) = <<>>
  THEN UNCHANGED vars
  ELSE LET newEntry == [id         |-> ToString(now),
                        content    |-> content,
                        timestamp  |-> toISOString(now),
                        sentiment  |-> "neutral",
                        themes     |-> <<>>,
                        wordCount  |-> Len(words(content)),
                        aiInsights |-> <<>>]
           updatedEntries == <<newEntry>> \o entries
       IN  /\ isLoading' = TRUE
           /\ entries' = updatedEntries
           /\ currentEntry' = <<>>
           /\ inflight' = inflight \cup
                {[newEntry |-> newEntry, entries |-> entries, content |-> content]}
           /\ accepted' = Append(accepted, newEntry)
           /\ currentStreak' = calculateCurrentStreak(updatedEntries, now, tz)
           /\ UNCHANGED <<storage, now, tz, mounted, analysis>>
           /\ UNCHANGED viewVars

\* saveEntry(content) up to its `await`: the entry is created with
\* placeholder classification, put first in the list and the list is written
\* to localStorage; the rest of the call waits for analyzeJournalEntry with
\* newEntry and the `entries` of the render that created the handler.
saveEntry(content) ==
  IF trim(content) = <<>>
  THEN UNCHANGED vars
  ELSE LET newEntry == [id         |-> ToString(now),
                        content    |-> content,
                        timestamp  |-> toISOString(now),
                        sentiment  |-> "neutral",
                        themes     |-> <<>>,
                        wordCount  |-> Len(words(content)),
                        aiInsights |-> <<>>]
           updatedEntries == <<newEntry>> \o entries
       IN  /\ isLoading' = TRUE
           /\ entries' = updatedEntries
           /\ storage' = updatedEntries
           /\ currentEntry' = <<>>
           /\ inflight' = inflight \cup
                {[newEntry |-> newEntry, entries |-> entries, content |-> content]}
           /\ accepted' = Append(accepted, newEntry)
           /\ currentStreak' = calculateCurrentStreak(updatedEntries, now, tz)
           /\ UNCHANGED <<now, tz, mounted, analysis>>
           /\ UNCHANGED viewVars

\* JournalEntry handleSave
handleSave ==
  IF trim(currentEntry) # <<>> THEN saveEntry(currentEntry) ELSE UNCHANGED vars

\* The Save button: disabled={!currentEntry.trim() || isLoading}
ClickSave ==
  /\ mounted
  /\ ~(trim(currentEntry) = <<>> \/ isLoading)
  /\ handleSave

\* handleKeyDown: Enter with the meta key
PressMetaEnter ==
  /\ mounted
  /\ handleSave

\* A continuation that stamps the analysed entry with the time of the commit.
AnalysisSettlesRestamps(call, remote) ==
  \E promise \in {analyzeJournalEntry(call.content, remote)} :
    LET analyzedEntry == [call.newEntry EXCEPT
                            !.timestamp  = toISOString(now),
                            !.sentiment  = promise.value.sentiment,
                            !.themes     = promise.value.themes,
                            !.aiInsights = promise.value.insights,
                            !.wordCount  = promise.value.wordCount]
        finalEntries == <<analyzedEntry>> \o call.entries
    IN  /\ call \in inflight
        /\ inflight' = inflight \ {call}
        /\ IF promise.state = "fulfilled"
           THEN /\ entries' = finalEntries
                /\ storage' = finalEntries
           ELSE UNCHANGED <<entries, storage>>
        /\ isLoading' = FALSE
        /\ currentStreak' = calculateCurrentStreak(entries', now, tz)
        /\ UNCHANGED <<currentEntry, now, tz, mounted, accepted, analysis>>
        /\ UNCHANGED viewVars

\* The rest of saveEntry, when the promise of analyzeJournalEntry settles.
AnalysisSettles(call, remote) ==
  \E promise \in {analyzeJournalEntry(call.content, remote)} :
    LET analyzedEntry == [call.newEntry EXCEPT
                            !.sentiment  = promise.value.sentiment,
                            !.themes     = promise.value.themes,
                            !.aiInsights = promise.value.insights,
                            !.wordCount  = promise.value.wordCount]
        finalEntries == <<analyzedEntry>> \o call.entries
    IN  /\ call \in inflight
        /\ inflight' = inflight \ {call}
        /\ IF promise.state = "fulfilled"
           THEN /\ entries' = finalEntries
                /\ storage' = finalEntries
           ELSE UNCHANGED <<entries, storage>>
        /\ isLoading' = FALSE
        /\ currentStreak' = calculateCurrentStreak(entries', now, tz)
        /\ UNCHANGED <<currentEntry, now, tz, mounted, accepted, analysis>>
        /\ UNCHANGED viewVars

Next ==
  \/ Mount
  \/ \E text \in EditorTexts : SetCurrentEntry(text)
  \/ ClickSave
  \/ PressMetaEnter
  \/ \E call \in inflight, remote \in SaveOutcomes : AnalysisSettles(call, remote)

Spec == Init /\ [][Next]_vars

\* ------------------------------------------------------------------------
\* analyzeJournalEntry as a function of the text and of the remote outcome
\* ------------------------------------------------------------------------

ClassifyTexts ==
  {T_goodDay, T_bad, T_mixed, T_walk, T_workStress, T_loveBad, T_family, T_many,
   T_grateful, T_write, T_happyHappy, T_blank, T_empty, T_goodGreat}

InitClassify ==
  /\ currentEntry \in ClassifyTexts
  /\ analysis = NoCall
  /\ entries = <<>>
  /\ storage = <<>>
  /\ isLoading = FALSE
  /\ inflight = {}
  /\ now = 0
  /\ tz = 0
  /\ mounted = TRUE
  /\ currentStreak = 0
  /\ accepted = <<>>
  /\ ViewsIdle

Classify ==
  /\ analysis.remote.net = "none"
  /\ \E remote \in RemoteOutcomes :
       analysis' = [remote |-> remote,
                    promise |-> analyzeJournalEntry(currentEntry, remote)]
  /\ UNCHANGED <<entries, storage, currentEntry, isLoading, inflight, now, tz,
                 mounted, currentStreak, accepted>>
  /\ UNCHANGED viewVars

NextClassify == Classify

SpecClassify == InitClassify /\ [][NextClassify]_vars

Sentiments == {"positive", "negative", "neutral", "mixed"}

AnalysisFields ==
  {"sentiment", "themes", "insights", "wordCount", "emotionalIntensity", "keyTopics"}

\* The number of maximal runs of non-whitespace characters of a text.
TokenCount(s) ==
  Cardinality({i \in 1..Len(s) :
                 s[i] \notin Whitespace /\ (i = 1 \/ s[i - 1] \in Whitespace)})

RemoteFailed == analysis.remote.net \in {"networkError", "notOk", "badBody"}

\* C5: when the remote call fails (network error, non-success status or
\* unparsable body) analyzeJournalEntry does not reject: it resolves to the
\* keyword classification of the same text, with all six fields present, the
\* sentiment one of the four values and the word count that of the text.
C5_FallbackOnRemoteFailure ==
  RemoteFailed =>
    /\ analysis.promise.state = "fulfilled"
    /\ LET r == analysis.promise.value
       IN  /\ DOMAIN r = AnalysisFields
           /\ r.sentiment \in Sentiments
           /\ r.wordCount = TokenCount(currentEntry)
           /\ r.insights # <<>>
           /\ r.emotionalIntensity \in 0..10
           /\ Len(r.themes) <= 5
           /\ r.keyTopics = SubSeq(r.themes, 1, Min(3, Len(r.themes)))
           /\ (currentEntry = T_goodDay => r.sentiment = "positive")
           /\ (currentEntry = T_bad => r.sentiment = "negative")
           /\ (currentEntry = T_mixed => r.sentiment = "mixed")
           /\ (currentEntry = T_walk => r.sentiment = "neutral")
           /\ (currentEntry = T_workStress => r.themes = <<"work", "stress">>)

C5_Witness ==
  /\ analysis.remote.net = "badBody"
  /\ currentEntry = T_mixed
  /\ analysis.promise.state = "fulfilled"
  /\ analysis.promise.value.sentiment = "mixed"
  /\ analysis.promise.value.wordCount = 4

\* ------------------------------------------------------------------------
\* Properties of the entry collection
\* ------------------------------------------------------------------------

\* The ids of the saveEntry calls that finish in this step.
CommittedIds == {call.newEntry.id : call \in inflight \ inflight'}

\* C6: the commit of entry X's classification changes only the entry with
\* X's id: every other entry of the collection, one saved while X was being
\* classified included, is still there and unchanged after the step, and X
\* itself is still there; no step removes an entry.
C6_CommitKeepsOtherEntries ==
  [][\A i \in DOMAIN entries :
       \/ entries[i] \in Range(entries')
       \/ /\ entries[i].id \in CommittedIds
          /\ \E j \in DOMAIN entries' : entries'[j].id = entries[i].id]_vars

Enriched(e) == e.aiInsights # <<>>

\* C7: once no classification is in flight, every entry saveEntry accepted
\* is in the collection with its classification applied, also when two saves
\* overlapped.
C7_AllSavedEnriched ==
  inflight = {} =>
    \A k \in DOMAIN accepted :
      \E i \in DOMAIN entries :
        /\ entries[i].id = accepted[k].id
        /\ entries[i].content = accepted[k].content
        /\ Enriched(entries[i])

\* C8: the sentiment of every entry of the collection is one of positive,
\* negative, neutral, mixed, whatever the remote classifier answered.
C8_SentimentInEnum ==
  \A i \in DOMAIN entries : entries[i].sentiment \in Sentiments

\* The word counts the remote classifier gave as a positive integer.
RemotePositiveCounts ==
  {a.wordCount.tenths \div 10 :
     a \in {b \in LlmAnswers : /\ b.wordCount.kind = "number"
                                /\ b.wordCount.tenths > 0
                                /\ b.wordCount.tenths % 10 = 0}}

\* C9: the word count of every stored entry is a non-negative integer: the
\* remote count when that is a positive integer, and otherwise the number of
\* whitespace-separated tokens of the entry's text.
C9_WordCountValid ==
  \A i \in DOMAIN entries :
    /\ entries[i].wordCount >= 0
    /\ \/ entries[i].wordCount = TokenCount(entries[i].content)
       \/ entries[i].wordCount \in RemotePositiveCounts

\* C10: no entry of the collection has the same theme label twice.
C10_ThemesDistinct ==
  \A i \in DOMAIN entries :
    \A j, k \in DOMAIN entries[i].themes :
      entries[i].themes[j] = entries[i].themes[k] => j = k

\* The fields of an entry.
EntryFields ==
  {"id", "content", "timestamp", "sentiment", "themes", "wordCount", "aiInsights"}

\* C11: the commit of an entry's classification leaves the entry's id, content
\* and timestamp as saveEntry created them: every entry of the collection
\* that saveEntry created has the content and the timestamp it was created
\* with and the same fields, and the entry a commit puts first differs from
\* the created one in sentiment, themes, aiInsights and wordCount only.
C11_CommitKeepsIdentity ==
  \A i \in DOMAIN entries :
    /\ DOMAIN entries[i] = EntryFields
    /\ \A k \in DOMAIN accepted :
         entries[i].id = accepted[k].id =>
           /\ entries[i].content = accepted[k].content
           /\ entries[i].timestamp = accepted[k].timestamp

C11_Witness ==
  /\ accepted # <<>>
  /\ entries # <<>>
  /\ entries[1].id = accepted[Len(accepted)].id
  /\ Enriched(entries[1])
  /\ entries[1].sentiment = "positive"
  /\ entries[1].wordCount = 7
  /\ now > parseISOString(entries[1].timestamp)

\* The text has no character other than whitespace.
IsBlank(s) == \A i \in 1..Len(s) : s[i] \in Whitespace

\* C12: text that is empty or only whitespace is never saved: no entry of the
\* collection, of storage or of a classification in flight has such a
\* content, and every entry created has a non-whitespace character.
C12_BlankNeverPersisted ==
  /\ \A i \in DOMAIN entries : ~IsBlank(entries[i].content)
  /\ \A i \in DOMAIN storage : ~IsBlank(storage[i].content)
  /\ \A k \in DOMAIN accepted : ~IsBlank(accepted[k].content)
  /\ \A call \in inflight : ~IsBlank(call.content)

\* The editor holds whitespace only after an entry was saved: Enter with
\* the meta key reaches handleSave here.
C12_Witness ==
  /\ mounted
  /\ currentEntry = T_blank
  /\ accepted # <<>>
  /\ Len(entries) >= 1

C14_IntensityInRange ==
  analysis.promise.state = "fulfilled" =>
    analysis.promise.value.emotionalIntensity \in 1..10

\* ------------------------------------------------------------------------
\* JournalDashboard: the entries of the time range, their statistics and
\* the sentiment trend
\* ------------------------------------------------------------------------

\* const days = timeRange === '7d' ? 7 : timeRange === '30d' ? 30 : 90
daysOfRange(range) == IF range = "7d" THEN 7 ELSE IF range = "30d" THEN 30 ELSE 90

\* date-fns subDays: the same local time n days earlier.
subDays(t, n) == t - n * TicksPerDay

\* date-fns startOfDay: local midnight of the instant's local day.
startOfDay(t, zone) == ((t + zone) \div TicksPerDay) * TicksPerDay - zone

\* date-fns format(date, 'yyyy-MM-dd'): the local date.
formatDate(t, zone) == dateOfDay((t + zone) \div TicksPerDay)

\* date-fns format(date, 'MMM dd'): month and day of the local date.
formatMonthDay(t, zone) ==
  [m |-> formatDate(t, zone).m, d |-> formatDate(t, zone).d]

\* An upper cutoff of one day less, at the time of day of the render.
filteredEntriesFromNow(es, range, clock, zone) ==
  SelectSeq(es, LAMBDA entry :
    parseISOString(entry.timestamp) >= subDays(clock, daysOfRange(range) - 1))

\* A filter that leaves out the entry written at the cutoff itself.
filteredEntriesAfterCutoff(es, range, clock, zone) ==
  LET cutoffDate == startOfDay(subDays(clock, daysOfRange(range)), zone)
  IN  SelectSeq(es, LAMBDA entry : parseISOString(entry.timestamp) > cutoffDate)

\* const filteredEntries = useMemo(...)
filteredEntries(es, range, clock, zone) ==
  LET cutoffDate == startOfDay(subDays(clock, daysOfRange(range)), zone)
  IN  SelectSeq(es, LAMBDA entry : parseISOString(entry.timestamp) >= cutoffDate)

\* filteredEntries.flatMap(entry => entry.themes)
RECURSIVE flatMapThemes(_)
flatMapThemes(es) ==
  IF es = <<>> THEN <<>> ELSE Head(es).themes \o flatMapThemes(Tail(es))

\* The largest number a key is compared with to tell whether it is an
\* integer-like property name.
MaxIntegerKey == 31

\* A property name that is a canonical array index: the number it writes.
integerKey(key) ==
  IF \E n \in 0..MaxIntegerKey : ToString(n) = key
  THEN CHOOSE n \in 0..MaxIntegerKey : ToString(n) = key
  ELSE -1

\* The property names of an object in the order Object.entries lists them:
\* integer-like names first, ascending, then the others in the order they
\* were created. `names` are the distinct names in the order of creation.
RECURSIVE ascendingKeys(_)
ascendingKeys(names) ==
  IF names = {} THEN <<>>
  ELSE LET least == CHOOSE a \in names : \A b \in names : integerKey(a) <= integerKey(b)
       IN  <<least>> \o ascendingKeys(names \ {least})

ownPropertyKeys(names) ==
  ascendingKeys({names[i] : i \in {j \in DOMAIN names : integerKey(names[j]) >= 0}})
    \o SelectSeq(names, LAMBDA k : integerKey(k) < 0)

\* Array.prototype.sort((a, b) => b.count - a.count): stable, by count
\* descending.
RECURSIVE sortByCountDescending(_)
sortByCountDescending(pairs) ==
  IF pairs = <<>> THEN <<>>
  ELSE LET rest == sortByCountDescending(Tail(pairs))
           ahead == SelectSeq(rest, LAMBDA q : q.count > Head(pairs).count)
           behind == SelectSeq(rest, LAMBDA q : q.count <= Head(pairs).count)
       IN  ahead \o <<Head(pairs)>> \o behind

\* The reduce into mostFrequentThemes, then Object.entries(...).sort(...)
\* .slice(0, 5).map(...)
topThemesOf(filtered) ==
  LET flat == flatMapThemes(filtered)
      names == uniqueInOrder(flat)
      keys == ownPropertyKeys(names)
      pairs == [i \in 1..Len(keys) |->
                  [theme |-> keys[i],
                   count |-> Cardinality({j \in DOMAIN flat : flat[j] = keys[i]})]]
  IN  slice(sortByCountDescending(pairs), 0, 5)

\* const stats = useMemo(...): the entry count and the top themes.
statsOf(filtered) ==
  [totalEntries |-> Len(filtered), topThemes |-> topThemesOf(filtered)]

\* const sentimentTrendData = useMemo(...)
sentimentTrendData(filtered, range, clock, zone) ==
  LET days == daysOfRange(range)
      point(i) ==
        LET date == subDays(clock, i)
            dayEntries == SelectSeq(filtered, LAMBDA entry :
              formatDate(parseISOString(entry.timestamp), zone) = formatDate(date, zone))
            daySentiments(s) ==
              Cardinality({j \in DOMAIN dayEntries : dayEntries[j].sentiment = s})
        IN  [date     |-> formatMonthDay(date, zone),
             positive |-> daySentiments("positive"),
             negative |-> daySentiments("negative"),
             neutral  |-> daySentiments("neutral"),
             mixed    |-> daySentiments("mixed")]
  IN  [k \in 1..days |-> point(days - k)]

\* One render of JournalDashboard.
renderDashboard(es, range, clock, zone) ==
  LET filtered == filteredEntries(es, range, clock, zone)
  IN  [rendered           |-> TRUE,
       filteredEntries    |-> filtered,
       stats              |-> statsOf(filtered),
       sentimentTrendData |-> sentimentTrendData(filtered, range, clock, zone)]

\* The most entries the dashboard is given.
MaxShown == 2

\* The day (counted from EpochDate) on which the dashboard is looked at.
DashboardDay == 92

\* Entries as the dashboard may be given them: how many days before the
\* render they were written, at the first or the last tick of the UTC day,
\* their sentiment and their themes.
ShownSamples ==
  { [daysAgo |-> 0,  tick |-> TicksPerDay - 1, sentiment |-> "positive",
     themes |-> <<"work">>],
    [daysAgo |-> 0,  tick |-> 0, sentiment |-> "negative",
     themes |-> <<"work", "family">>],
    [daysAgo |-> 1,  tick |-> TicksPerDay - 1, sentiment |-> "mixed",
     themes |-> <<"family">>],
    [daysAgo |-> 6,  tick |-> 0, sentiment |-> "positive",
     themes |-> <<"work", "family", "stress", "health", "growth">>],
    [daysAgo |-> 7,  tick |-> TicksPerDay - 1, sentiment |-> "neutral",
     themes |-> <<"7">>],
    [daysAgo |-> 7,  tick |-> 0, sentiment |-> "joyful",
     themes |-> <<"gratitude", "work">>],
    [daysAgo |-> 29, tick |-> 0, sentiment |-> "negative",
     themes |-> <<>>],
    [daysAgo |-> 30, tick |-> TicksPerDay - 1, sentiment |-> "positive",
     themes |-> <<"stress">>],
    [daysAgo |-> 89, tick |-> 0, sentiment |-> "mixed",
     themes |-> <<"work", "work">>],
    [daysAgo |-> 90, tick |-> 0, sentiment |-> "neutral",
     themes |-> <<"reflection">>],
    [daysAgo |-> -1, tick |-> 0, sentiment |-> "positive",
     themes |-> <<"family", "work">>] }

ShownEntry(sample) ==
  LET t == (DashboardDay - sample.daysAgo) * TicksPerDay + sample.tick
  IN  [id |-> ToString(t), content |-> T_goodDay, timestamp |-> toISOString(t),
       sentiment |-> sample.sentiment, themes |-> sample.themes, wordCount |-> 2,
       aiInsights |-> SupportiveDefault]

ShownLists ==
  UNION {{[i \in 1..n |-> ShownEntry(ss[i])] : ss \in [1..n -> ShownSamples]} :
           n \in 0..MaxShown}

InitDashboard ==
  /\ entries \in ShownLists
  /\ storage = entries
  /\ now \in {DashboardDay * TicksPerDay, DashboardDay * TicksPerDay + TicksPerDay - 1}
  /\ tz \in Zones
  /\ mounted = TRUE
  /\ currentStreak = 0
  /\ currentEntry = <<>>
  /\ isLoading = FALSE
  /\ inflight = {}
  /\ accepted = <<>>
  /\ analysis = NoCall
  /\ ViewsIdle

\* The dashboard tab is shown: JournalDashboard renders with the entries.
RenderDashboard ==
  /\ ~dashboard.rendered
  /\ dashboard' = renderDashboard(entries, timeRange, now, tz)
  /\ UNCHANGED <<homeVars, timeRange, selectedPeriod, insights, suggestions, modalVars>>

\* onClick={() => setTimeRange(range)}: the memos are computed again.
SetTimeRange(range) ==
  /\ dashboard.rendered
  /\ range # timeRange
  /\ timeRange' = range
  /\ dashboard' = renderDashboard(entries, range, now, tz)
  /\ UNCHANGED <<homeVars, selectedPeriod, insights, suggestions, modalVars>>

NextDashboard ==
  \/ RenderDashboard
  \/ \E range \in {"7d", "30d", "90d"} : SetTimeRange(range)

SpecDashboard == InitDashboard /\ [][NextDashboard]_vars

\* The entries of a sentiment written on a local day.
EntriesOn(day, s) ==
  {i \in DOMAIN entries :
     /\ LocalDay(parseISOString(entries[i].timestamp)) = day
     /\ entries[i].sentiment = s}

\* C15: the sentiment trend of a window of windowDays has exactly windowDays
\* points, the k-th being the local day windowDays-k days before today
\* (oldest first, today last), and each point has the four counts positive,
\* negative, neutral, mixed: the number of entries of that sentiment written
\* on that day, 0 when there is none.
C15_TrendIsDense ==
  dashboard.rendered =>
    LET days == daysOfRange(timeRange)
        trend == dashboard.sentimentTrendData
    IN  /\ timeRange \in {"7d", "30d", "90d"}
        /\ Len(trend) = days
        /\ \A k \in 1..days :
             LET day == Today - (days - k)
             IN  /\ DOMAIN trend[k] = {"date"} \cup Sentiments
                 /\ trend[k].date = [m |-> dateOfDay(day).m, d |-> dateOfDay(day).d]
                 /\ \A s \in Sentiments : trend[k][s] = Cardinality(EntriesOn(day, s))

C15_Witness ==
  /\ dashboard.rendered
  /\ timeRange = "7d"
  /\ Len(dashboard.sentimentTrendData) = 7
  /\ dashboard.sentimentTrendData[1].positive = 1
  /\ dashboard.sentimentTrendData[7].negative = 1
  /\ dashboard.sentimentTrendData[7].positive = 0
  /\ Len(entries) = 2

\* The flattened theme sequence of the filtered entries.
FlatThemes == flatMapThemes(dashboard.filteredEntries)

FirstSeen(theme) == CHOOSE j \in DOMAIN FlatThemes :
  FlatThemes[j] = theme /\ \A i \in 1..(j - 1) : FlatThemes[i] # theme

Occurrences(theme) == Cardinality({j \in DOMAIN FlatThemes : FlatThemes[j] = theme})

\* Theme a is ranked before theme b.
RankedBefore(a, b) ==
  \/ Occurrences(a) > Occurrences(b)
  \/ Occurrences(a) = Occurrences(b) /\ FirstSeen(a) < FirstSeen(b)

\* C16: topThemes lists at most 5 {theme, count} pairs: the themes of the
\* filtered entries with the number of their occurrences, the most frequent
\* first and, among equally frequent themes, the one seen first in the
\* flattened theme sequence first; a theme left out ranks after every theme
\* listed.
C16_TopThemesRanked ==
  dashboard.rendered =>
    LET top == dashboard.stats.topThemes
    IN  /\ Len(top) = Min(5, Cardinality(Range(FlatThemes)))
        /\ \A i \in DOMAIN top :
             /\ top[i].theme \in Range(FlatThemes)
             /\ top[i].count = Occurrences(top[i].theme)
        /\ \A i, j \in DOMAIN top : i < j => RankedBefore(top[i].theme, top[j].theme)
        /\ \A t \in Range(FlatThemes) :
             (\A i \in DOMAIN top : top[i].theme # t) =>
               \A i \in DOMAIN top : RankedBefore(top[i].theme, t)

\* ------------------------------------------------------------------------
\* InsightSummary: the entries of the selected period
\* ------------------------------------------------------------------------

\* Date.prototype.getDay of the instant's local day: 0 is Sunday. EpochDate
\* is a Saturday.
getDay(t, zone) == (((t + zone) \div TicksPerDay) + 6) % 7

\* date-fns endOfDay: the last instant of the instant's local day.
endOfDay(t, zone) == startOfDay(t, zone) + TicksPerDay - 1

\* date-fns startOfWeek(now, { weekStartsOn: 1 })
startOfWeek(t, zone) ==
  LET day == getDay(t, zone)
      diff == (IF day < 1 THEN 7 ELSE 0) + day - 1
  IN  startOfDay(subDays(t, diff), zone)

\* date-fns endOfWeek(now, { weekStartsOn: 1 })
endOfWeek(t, zone) ==
  LET day == getDay(t, zone)
      diff == (IF day < 1 THEN -7 ELSE 0) + 6 - (day - 1)
  IN  endOfDay(subDays(t, -diff), zone)

\* new Date(year, month, day) for a date of the calendar: its local midnight.
localMidnight(date, zone) == dayOfDate(date) * TicksPerDay - zone

\* new Date(now.getFullYear(), now.getMonth(), 1)
monthStartOf(t, zone) ==
  localMidnight([formatDate(t, zone) EXCEPT !.d = 1], zone)

\* new Date(now.getFullYear(), now.getMonth() + 1, 0): day 0 of the next
\* month is the last day of this month, at local midnight.
monthEndOf(t, zone) ==
  LET date == formatDate(t, zone)
  IN  localMidnight([date EXCEPT !.d = daysInMonth(date.y, date.m)], zone)

\* date-fns isWithinInterval(date, { start, end })
isWithinInterval(t, start, end) == t >= start /\ t <= end

\* const periodEntries = entries.filter(...)
periodEntriesOf(es, period, clock, zone) ==
  LET weekStart == startOfWeek(clock, zone)
      weekEnd == endOfWeek(clock, zone)
      monthStart == monthStartOf(clock, zone)
      monthEnd == monthEndOf(clock, zone)
      periodStart == IF period = "week" THEN weekStart ELSE monthStart
      periodEnd == IF period = "week" THEN weekEnd ELSE monthEnd
  IN  SelectSeq(es, LAMBDA entry :
        isWithinInterval(parseISOString(entry.timestamp), periodStart, periodEnd))

\* entry.themes of the period's entries, in the order themeFrequency meets
\* them.
periodThemes(periodEntries) == flatMapThemes(periodEntries)

\* Object.entries(themeFrequency).sort(([,a], [,b]) => b - a).map(...)
sortedThemesOf(periodEntries) ==
  LET flat == periodThemes(periodEntries)
      keys == ownPropertyKeys(uniqueInOrder(flat))
      pairs == [i \in 1..Len(keys) |->
                  [theme |-> keys[i],
                   count |-> Cardinality({j \in DOMAIN flat : flat[j] = keys[i]})]]
  IN  sortByCountDescending(pairs)

\* sentimentCounts[s] || 0
sentimentCount(periodEntries, s) ==
  Cardinality({i \in DOMAIN periodEntries : periodEntries[i].sentiment = s})

MorePositive == "You've been experiencing more positive emotions this period"

WorkProminent == "Work and career have been prominent themes in your reflections"

RelationshipsImportant == "Your relationships and connections have been important to you"

\* (sentimentCounts.positive || 0) > (sentimentCounts.negative || 0)
morePositive(periodEntries) ==
  sentimentCount(periodEntries, "positive") > sentimentCount(periodEntries, "negative")

\* const insights: string[] = []; the three `if (...) insights.push(...)`.
patternsOf(periodEntries, topThemes) ==
  (IF morePositive(periodEntries) THEN <<MorePositive>> ELSE <<>>)
    \o (IF "work" \in Range(topThemes) \/ "career" \in Range(topThemes)
        THEN <<WorkProminent>> ELSE <<>>)
    \o (IF "relationship" \in Range(topThemes) \/ "family" \in Range(topThemes)
        THEN <<RelationshipsImportant>> ELSE <<>>)

\* const insights = useMemo(...): null without entries or without entries in
\* the period; periodEntries is the memo's local list.
insightsOf(es, period, clock, zone) ==
  LET periodEntries == IF Len(es) = 0 THEN <<>> ELSE periodEntriesOf(es, period, clock, zone)
      sortedThemes == sortedThemesOf(periodEntries)
      top == slice(sortedThemes, 0, 3)
      topThemes == [i \in 1..Len(top) |-> top[i].theme]
  IN  [rendered      |-> TRUE,
       isNull        |-> Len(periodEntries) = 0,
       period        |-> IF period = "week" THEN "this week" ELSE "this month",
       periodEntries |-> periodEntries,
       totalEntries  |-> Len(periodEntries),
       topThemes     |-> topThemes,
       insights      |-> IF Len(periodEntries) = 0 THEN <<>>
                         ELSE patternsOf(periodEntries, topThemes)]

\* The earlier copy of the component compares the counts as they are in
\* sentimentCounts: sentimentCounts.positive > sentimentCounts.negative, where
\* the count of a sentiment without entries is undefined and a comparison
\* with undefined is false.
morePositiveEarlier(periodEntries) ==
  /\ sentimentCount(periodEntries, "positive") > 0
  /\ sentimentCount(periodEntries, "negative") > 0
  /\ sentimentCount(periodEntries, "positive") > sentimentCount(periodEntries, "negative")

patternsOfEarlier(periodEntries, topThemes) ==
  (IF morePositiveEarlier(periodEntries) THEN <<MorePositive>> ELSE <<>>)
    \o (IF "work" \in Range(topThemes) \/ "career" \in Range(topThemes)
        THEN <<WorkProminent>> ELSE <<>>)
    \o (IF "relationship" \in Range(topThemes) \/ "family" \in Range(topThemes)
        THEN <<RelationshipsImportant>> ELSE <<>>)

\* The memo of the earlier copy: the same period filter and top themes.
insightsOfEarlier(es, period, clock, zone) ==
  LET memo == insightsOf(es, period, clock, zone)
  IN  [memo EXCEPT !.insights = IF memo.isNull THEN <<>>
                                ELSE patternsOfEarlier(memo.periodEntries, memo.topThemes)]

\* The two copies of InsightSummary the repository holds.
Copies == {"current", "earlier"}

\* The memo of a copy, with the copy that computed it.
memoOf(copy, es, period, clock, zone) ==
  LET memo == IF copy = "current" THEN insightsOf(es, period, clock, zone)
              ELSE insightsOfEarlier(es, period, clock, zone)
  IN  [f \in DOMAIN memo \cup {"copy"} |-> IF f = "copy" THEN copy ELSE memo[f]]

\* The most entries InsightSummary is given.
MaxPeriodEntries == 2

\* The day (counted from EpochDate) on which the insights are looked at:
\* Wednesday 2024-10-30.
InsightsDay == 32

\* When the entries given to InsightSummary were written: days around the
\* ends of the week and of the month, at the first and the last tick of the
\* UTC day.
PeriodInstants ==
  {(InsightsDay + offset) * TicksPerDay + k :
     offset \in {-30, -29, -3, -2, 0, 1, 2, 4, 5}, k \in {0, TicksPerDay - 1}}

PeriodEntry(t) ==
  [id |-> ToString(t), content |-> T_goodDay, timestamp |-> toISOString(t),
   sentiment |-> "positive", themes |-> <<"work">>, wordCount |-> 2,
   aiInsights |-> SupportiveDefault]

\* Entries written on the day the insights are looked at, with the
\* sentiments and themes the patterns depend on.
PatternSamples ==
  { [sentiment |-> "negative", themes |-> <<"family">>],
    [sentiment |-> "negative", themes |-> <<"stress", "health", "growth", "work">>],
    [sentiment |-> "neutral", themes |-> <<"relationship", "career">>],
    [sentiment |-> "mixed", themes |-> <<>>] }

PatternEntry(sample) ==
  [PeriodEntry(InsightsDay * TicksPerDay) EXCEPT
     !.sentiment = sample.sentiment, !.themes = sample.themes]

PeriodEntries ==
  {PeriodEntry(t) : t \in PeriodInstants} \cup {PatternEntry(sample) : sample \in PatternSamples}

PeriodLists ==
  UNION {[1..n -> PeriodEntries] : n \in 0..MaxPeriodEntries}

\* The memo as a function of the entries, the period and the clock: the
\* period is drawn from its type ('week' | 'month').
InitInsights ==
  /\ entries \in PeriodLists
  /\ storage = entries
  /\ now \in {InsightsDay * TicksPerDay, InsightsDay * TicksPerDay + TicksPerDay - 1}
  /\ tz \in Zones
  /\ mounted = TRUE
  /\ currentStreak = 0
  /\ currentEntry = <<>>
  /\ isLoading = FALSE
  /\ inflight = {}
  /\ accepted = <<>>
  /\ analysis = NoCall
  /\ timeRange = "30d"
  /\ dashboard = NotRendered
  /\ selectedPeriod \in {"week", "month"}
  /\ insights = NotRendered
  /\ suggestions = NoSuggestions
  /\ modal = ModalClosed
  /\ modalCalls = <<>>

\* The insights tab is shown: InsightSummary, in either copy, renders with
\* the entries.
RenderInsights ==
  /\ ~insights.rendered
  /\ \E copy \in Copies : insights' = memoOf(copy, entries, selectedPeriod, now, tz)
  /\ UNCHANGED <<homeVars, timeRange, dashboard, selectedPeriod, suggestions, modalVars>>

\* onClick={() => setSelectedPeriod('week')}: the memo is computed again
\* when the period changes.
SelectWeek ==
  /\ insights.rendered
  /\ selectedPeriod' = "week"
  /\ insights' = IF selectedPeriod = "week" THEN insights
                 ELSE memoOf(insights.copy, entries, "week", now, tz)
  /\ UNCHANGED <<homeVars, timeRange, dashboard, suggestions, modalVars>>

NextInsights ==
  \/ RenderInsights
  \/ SelectWeek

SpecInsights == InitInsights /\ [][NextInsights]_vars

\* Monday is 0, Sunday is 6; EpochDate is a Saturday.
WeekdayOf(day) == (day + 5) % 7

MondayOf(day) == day - WeekdayOf(day)

\* The instant lies in the current period, both end days included.
InCurrentPeriod(t) ==
  IF selectedPeriod = "week"
  THEN LocalDay(t) \in MondayOf(Today)..(MondayOf(Today) + 6)
  ELSE /\ dateOfDay(LocalDay(t)).y = dateOfDay(Today).y
       /\ dateOfDay(LocalDay(t)).m = dateOfDay(Today).m

AsciiTo95 ==
  <<" ", "!", "\"", "#", "$", "%", "&", "'", "(", ")", "*", "+", ",", "-",
    ".", "/", "0", "1", "2", "3", "4", "5", "6", "7", "8", "9", ":", ";",
    "<", "=", ">", "?", "@", "A", "B", "C", "D", "E", "F", "G", "H", "I",
    "J", "K", "L", "M", "N", "O", "P", "Q", "R", "S", "T", "U", "V", "W",
    "X", "Y", "Z", "[", "\\", "]", "^", "_">>

\* The ASCII characters from code 97 (a) to code 126 (~).
AsciiFrom97 ==
  <<"a", "b", "c", "d", "e", "f", "g", "h", "i", "j", "k", "l", "m", "n",
    "o", "p", "q", "r", "s", "t", "u", "v", "w", "x", "y", "z", "{", "|",
    "}", "~">>

\* String.prototype.charCodeAt for a character of the model's texts.
charCodeAt(c) ==
  IF c = "\n" THEN 10
  ELSE IF c = "\t" THEN 9
  ELSE IF \E i \in DOMAIN AsciiTo95 : AsciiTo95[i] = c
       THEN 31 + (CHOOSE i \in DOMAIN AsciiTo95 : AsciiTo95[i] = c)
       ELSE 96 + (CHOOSE i \in DOMAIN AsciiFrom97 : AsciiFrom97[i] = c)

\* A 32-bit word as its two 16-bit halves.
Word(hi, lo) == [hi |-> hi, lo |-> lo]

\* 2^16: the low half of a word is below it.
Half == 2^16

\* a ^ b for two 16-bit halves
RECURSIVE xorBits(_, _)
xorBits(a, b) ==
  IF a = 0 THEN b
  ELSE IF b = 0 THEN a
  ELSE ((a + b) % 2) + (2 * xorBits(a \div 2, b \div 2))

\* x ^ y on 32 bits
xor32(x, y) == Word(xorBits(x.hi, y.hi), xorBits(x.lo, y.lo))

\* x << k on 32 bits
shl32(x, k) ==
  IF k >= 16
  THEN Word((x.lo * (2^(k - 16))) % Half, 0)
  ELSE Word(((x.hi * (2^k)) + ((x.lo * (2^k)) \div Half)) % Half, (x.lo * (2^k)) % Half)

\* x >>> k on 32 bits
shr32(x, k) ==
  IF k >= 16
  THEN Word(0, x.hi \div (2^(k - 16)))
  ELSE Word(x.hi \div (2^k), (((x.hi % (2^k)) * (2^(16 - k))) + (x.lo \div (2^k))) % Half)

\* x + y, kept to 32 bits (the next bitwise operator does that)
add32(x, y) ==
  Word((x.hi + y.hi + ((x.lo + y.lo) \div Half)) % Half, (x.lo + y.lo) % Half)

\* x % m for an unsigned 32-bit x and a small m
mod32(x, m) == (((x.hi % m) * (Half % m)) + (x.lo % m)) % m

\* let h = 2166136261 (0x811C9DC5)
FnvOffsetBasis == Word(33052, 40389)

\* One round of the loop of hashString: h ^= code; h += (h << 1) + (h << 4)
\* + (h << 7) + (h << 8) + (h << 24).
hashRound(h, code) ==
  LET x == xor32(h, Word(0, code))
  IN  add32(x, add32(shl32(x, 1), add32(shl32(x, 4),
        add32(shl32(x, 7), add32(shl32(x, 8), shl32(x, 24))))))

\* hashString: the loop from character i on, each round computed before the
\* next begins; `h >>> 0` at the end.
RECURSIVE hashFrom(_, _, _)
hashFrom(input, i, h) ==
  IF i > Len(input) THEN h
  ELSE CHOOSE r \in {hashFrom(input, i + 1, v) :
                       v \in {hashRound(h, charCodeAt(input[i]))}} : TRUE

hashString(input) == hashFrom(input, 1, FnvOffsetBasis)

\* s ^= s << 13; s ^= s >>> 17; s ^= s << 5; s >>>= 0
xorshift(s) ==
  LET s1 == xor32(s, shl32(s, 13))
      s2 == xor32(s1, shr32(s1, 17))
  IN  xor32(s2, shl32(s2, 5))

\* One round of the loop of seededShuffle at index i (0-based): the array
\* after the swap and the generator's next state.
shuffleRound(a, i, s) ==
  LET next == xorshift(s)
      j == mod32(next, i + 1)
  IN  [a |-> [a EXCEPT ![i + 1] = a[j + 1], ![j + 1] = a[i + 1]], s |-> next]

\* seededShuffle: the loop from index i down to 1, each round computed
\* before the next begins.
RECURSIVE shuffleFrom(_, _, _)
shuffleFrom(a, i, s) ==
  IF i <= 0 THEN a
  ELSE CHOOSE r \in {shuffleFrom(v.a, i - 1, v.s) : v \in {shuffleRound(a, i, s)}} : TRUE

seededShuffle(arr, seed) ==
  shuffleFrom(arr, Len(arr) - 1, IF seed = Word(0, 0) THEN Word(0, 1) ELSE seed)

Digits == <<"0", "1", "2", "3", "4", "5", "6", "7", "8", "9">>

\* The decimal digits of a non-negative integer, as a template literal
\* writes them.
RECURSIVE digitsOf(_)
digitsOf(n) ==
  IF n < 10 THEN <<Digits[n + 1]>> ELSE digitsOf(n \div 10) \o <<Digits[(n % 10) + 1]>>

\* weekKey: the week number is floor((the days from `onejan`, local midnight
\* of 1 January of the local year, to the instant + onejan.getDay() + 1) / 7).
weekNumber(t, zone) ==
  LET date == formatDate(t, zone)
      onejan == (dayOfDate(date) - dayOfYear(date)) * TicksPerDay - zone
      days == (t - onejan) \div TicksPerDay
  IN  (days + getDay(onejan, zone) + 1) \div 7

weekKey(t, zone) ==
  digitsOf(formatDate(t, zone).y) \o <<"-", "W">> \o digitsOf(weekNumber(t, zone))

\* const pools: the hyphens and quotation marks of the source are written
\* with the ASCII characters - and ".
pools_general ==
  << <<"W", "r", "i", "t", "e", " ", "o", "n", "e", " ", "i", "n", "t", "e", "n", "t", "i", "o", "n", " ", "f", "o", "r", " ", "t", "o", "m", "o", "r", "r", "o", "w", " ", "a", "n", "d", " ", "o", "n", "e", " ", "t", "h", "i", "n", "g", " ", "y", "o", "u", " ", "a", "p", "p", "r", "e", "c", "i", "a", "t", "e", " ", "t", "o", "d", "a", "y", ".">>,
     <<"T", "a", "k", "e", " ", "a", " ", "5", "-", "m", "i", "n", "u", "t", "e", " ", "p", "a", "u", "s", "e", " ", "t", "o", " ", "b", "r", "e", "a", "t", "h", "e", " ", "a", "n", "d", " ", "n", "a", "m", "e", " ", "t", "h", "e", " ", "f", "e", "e", "l", "i", "n", "g", " ", "y", "o", "u", " ", "n", "o", "t", "i", "c", "e", ".">>,
     <<"G", "o", " ", "f", "o", "r", " ", "a", " ", "b", "r", "i", "e", "f", " ", "w", "a", "l", "k", " ", "a", "n", "d", " ", "c", "a", "p", "t", "u", "r", "e", " ", "o", "n", "e", " ", "o", "b", "s", "e", "r", "v", "a", "t", "i", "o", "n", " ", "w", "h", "e", "n", " ", "y", "o", "u", " ", "r", "e", "t", "u", "r", "n", ".">>,
     <<"M", "e", "s", "s", "a", "g", "e", " ", "s", "o", "m", "e", "o", "n", "e", " ", "\"", "t", "h", "i", "n", "k", "i", "n", "g", " ", "o", "f", " ", "y", "o", "u", "\"", " ", "a", "n", "d", " ", "n", "o", "t", "e", " ", "h", "o", "w", " ", "t", "h", "a", "t", " ", "f", "e", "e", "l", "s", ".">>,
     <<"T", "i", "d", "y", " ", "o", "n", "e", " ", "s", "m", "a", "l", "l", " ", "s", "p", "a", "c", "e", " ", "f", "o", "r", " ", "f", "i", "v", "e", " ", "m", "i", "n", "u", "t", "e", "s", " ", "a", "n", "d", " ", "r", "e", "f", "l", "e", "c", "t", " ", "o", "n", " ", "t", "h", "e", " ", "c", "h", "a", "n", "g", "e", ".">> >>

pools_stress ==
  << <<"T", "r", "y", " ", "a", " ", "4", "-", "7", "-", "8", " ", "b", "r", "e", "a", "t", "h", "i", "n", "g", " ", "c", "y", "c", "l", "e", " ", "(", "2", " ", "m", "i", "n", "u", "t", "e", "s", ")", " ", "a", "n", "d", " ", "n", "o", "t", "e", " ", "a", "n", "y", " ", "s", "h", "i", "f", "t", ".">>,
     <<"T", "i", "m", "e", "b", "o", "x", " ", "o", "n", "e", " ", "w", "o", "r", "r", "y", " ", "t", "o", " ", "1", "0", " ", "m", "i", "n", "u", "t", "e", "s", ";", " ", "l", "i", "s", "t", " ", "o", "n", "e", " ", "t", "i", "n", "y", " ", "n", "e", "x", "t", " ", "s", "t", "e", "p", ".">>,
     <<"S", "t", "e", "p", " ", "o", "u", "t", "s", "i", "d", "e", " ", "f", "o", "r", " ", "f", "r", "e", "s", "h", " ", "a", "i", "r", " ", "a", "n", "d", " ", "d", "e", "s", "c", "r", "i", "b", "e", " ", "o", "n", "e", " ", "s", "e", "n", "s", "o", "r", "y", " ", "d", "e", "t", "a", "i", "l", ".">> >>

pools_work ==
  << <<"S", "e", "t", " ", "o", "n", "e", " ", "b", "o", "u", "n", "d", "a", "r", "y", " ", "f", "o", "r", " ", "t", "o", "m", "o", "r", "r", "o", "w", " ", "(", "e", ".", "g", ".", ",", " ", "a", " ", "n", "o", "-", "m", "e", "e", "t", "i", "n", "g", " ", "b", "l", "o", "c", "k", ")", ".">>,
     <<"D", "e", "f", "i", "n", "e", " ", "a", " ", "\"", "s", "m", "a", "l", "l", "e", "s", "t", " ", "n", "e", "x", "t", " ", "s", "t", "e", "p", "\"", " ", "a", "n", "d", " ", "s", "c", "h", "e", "d", "u", "l", "e", " ", "1", "5", " ", "f", "o", "c", "u", "s", "e", "d", " ", "m", "i", "n", "u", "t", "e", "s", ".">>,
     <<"C", "l", "o", "s", "e", " ", "t", "h", "e", " ", "d", "a", "y", " ", "w", "i", "t", "h", " ", "a", " ", "2", "-", "l", "i", "n", "e", " ", "w", "o", "r", "k", " ", "l", "o", "g", ";", " ", "l", "e", "t", " ", "t", "h", "e", " ", "r", "e", "s", "t", " ", "w", "a", "i", "t", ".">> >>

pools_relationships ==
  << <<"S", "e", "n", "d", " ", "a", " ", "b", "r", "i", "e", "f", " ", "c", "h", "e", "c", "k", "-", "i", "n", " ", "t", "o", " ", "s", "o", "m", "e", "o", "n", "e", " ", "y", "o", "u", " ", "c", "a", "r", "e", " ", "a", "b", "o", "u", "t", ".">>,
     <<"W", "r", "i", "t", "e", " ", "a", " ", "g", "r", "a", "t", "i", "t", "u", "d", "e", " ", "l", "i", "n", "e", " ", "a", "b", "o", "u", "t", " ", "a", " ", "p", "e", "r", "s", "o", "n", " ", "i", "n", " ", "y", "o", "u", "r", " ", "l", "i", "f", "e", ".">>,
     <<"P", "l", "a", "n", " ", "a", " ", "1", "0", "-", "m", "i", "n", "u", "t", "e", " ", "c", "o", "n", "n", "e", "c", "t", "i", "o", "n", " ", "(", "c", "a", "l", "l", ",", " ", "w", "a", "l", "k", ",", " ", "o", "r", " ", "s", "h", "a", "r", "e", "d", " ", "t", "e", "a", ")", ".">> >>

pools_health ==
  << <<"D", "r", "i", "n", "k", " ", "a", " ", "g", "l", "a", "s", "s", " ", "o", "f", " ", "w", "a", "t", "e", "r", " ", "a", "n", "d", " ", "t", "a", "k", "e", " ", "t", "h", "r", "e", "e", " ", "d", "e", "e", "p", " ", "b", "r", "e", "a", "t", "h", "s", ".">>,
     <<"S", "t", "r", "e", "t", "c", "h", " ", "f", "o", "r", " ", "t", "w", "o", " ", "m", "i", "n", "u", "t", "e", "s", " ", "a", "n", "d", " ", "n", "o", "t", "i", "c", "e", " ", "w", "h", "e", "r", "e", " ", "y", "o", "u", " ", "r", "e", "l", "e", "a", "s", "e", " ", "t", "e", "n", "s", "i", "o", "n", ".">>,
     <<"P", "l", "a", "n", " ", "a", " ", "s", "h", "o", "r", "t", " ", "w", "a", "l", "k", " ", "o", "r", " ", "w", "i", "n", "d", "-", "d", "o", "w", "n", " ", "r", "i", "t", "u", "a", "l", " ", "f", "o", "r", " ", "t", "o", "n", "i", "g", "h", "t", ".">> >>

pools_creativity ==
  << <<"B", "r", "a", "i", "n", "-", "d", "u", "m", "p", " ", "f", "i", "v", "e", " ", "i", "d", "e", "a", "s", " ", "w", "i", "t", "h", "o", "u", "t", " ", "j", "u", "d", "g", "m", "e", "n", "t", " ", "f", "o", "r", " ", "t", "w", "o", " ", "m", "i", "n", "u", "t", "e", "s", ".">>,
     <<"D", "o", "o", "d", "l", "e", " ", "o", "r", " ", "f", "r", "e", "e", "-", "w", "r", "i", "t", "e", " ", "f", "o", "r", " ", "9", "0", " ", "s", "e", "c", "o", "n", "d", "s", ";", " ", "k", "e", "e", "p", " ", "i", "t", " ", "p", "l", "a", "y", "f", "u", "l", ".">>,
     <<"C", "a", "p", "t", "u", "r", "e", " ", "o", "n", "e", " ", "c", "u", "r", "i", "o", "s", "i", "t", "y", " ", "t", "o", " ", "e", "x", "p", "l", "o", "r", "e", " ", "t", "h", "i", "s", " ", "w", "e", "e", "k", ".">> >>

pools_gratitude ==
  << <<"L", "i", "s", "t", " ", "t", "h", "r", "e", "e", " ", "t", "i", "n", "y", " ", "t", "h", "i", "n", "g", "s", " ", "t", "h", "a", "t", " ", "b", "r", "o", "u", "g", "h", "t", " ", "e", "a", "s", "e", " ", "t", "o", "d", "a", "y", ".">>,
     <<"W", "r", "i", "t", "e", " ", "o", "n", "e", " ", "t", "h", "a", "n", "k", "-", "y", "o", "u", " ", "n", "o", "t", "e", " ", "(", "c", "a", "n", " ", "b", "e", " ", "u", "n", "s", "e", "n", "t", ")", ".">>,
     <<"R", "e", "v", "i", "s", "i", "t", " ", "a", " ", "p", "o", "s", "i", "t", "i", "v", "e", " ", "h", "i", "g", "h", "l", "i", "g", "h", "t", " ", "a", "n", "d", " ", "a", "d", "d", " ", "o", "n", "e", " ", "d", "e", "t", "a", "i", "l", ".">> >>

S_stress == <<"s", "t", "r", "e", "s", "s">>

S_anxiety == <<"a", "n", "x", "i", "e", "t", "y">>

S_friend == <<"f", "r", "i", "e", "n", "d">>

S_grateful == <<"g", "r", "a", "t", "e", "f", "u", "l">>

\* The pools that match the entry, in the order of the `if` chain.
thematicPools(lower, sentiment, themes) ==
  (IF sentiment = "negative" \/ includes(lower, S_stress) \/ includes(lower, S_anxiety)
   THEN pools_stress ELSE <<>>)
  \o (IF "work" \in Range(themes) THEN pools_work ELSE <<>>)
  \o (IF "family" \in Range(themes) \/ "relationships" \in Range(themes)
         \/ includes(lower, S_friend)
      THEN pools_relationships ELSE <<>>)
  \o (IF "health" \in Range(themes) THEN pools_health ELSE <<>>)
  \o (IF "creativity" \in Range(themes) THEN pools_creativity ELSE <<>>)
  \o (IF "gratitude" \in Range(themes) \/ includes(lower, S_grateful)
      THEN pools_gratitude ELSE <<>>)

\* The loop over `shuffled` with the comparison p === normalized: suggestions
\* that differ in case are both taken.
RECURSIVE pickExact(_, _)
pickExact(shuffled, picked) ==
  IF shuffled = <<>> \/ Len(picked) >= 3 THEN picked
  ELSE LET normalized == trim(Head(shuffled))
       IN  IF normalized = <<>> THEN pickExact(Tail(shuffled), picked)
           ELSE IF \E k \in DOMAIN picked : picked[k] = normalized
                THEN pickExact(Tail(shuffled), picked)
                ELSE pickExact(Tail(shuffled), Append(picked, normalized))

\* for (const s of shuffled) {...}: the first three trimmed suggestions that
\* are not empty and differ from those picked before, whatever the case.
RECURSIVE pick(_, _)
pick(shuffled, picked) ==
  IF shuffled = <<>> \/ Len(picked) >= 3 THEN picked
  ELSE LET normalized == trim(Head(shuffled))
       IN  IF normalized = <<>> THEN pick(Tail(shuffled), picked)
           ELSE IF \E k \in DOMAIN picked : toLowerCase(picked[k]) = toLowerCase(normalized)
                THEN pick(Tail(shuffled), picked)
                ELSE pick(Tail(shuffled), Append(picked, normalized))

\* diversifySuggestions with candidates from `base` and the thematic pools
\* only: the general pool is left out.
diversifySuggestionsWithoutGeneral(base, content, sentiment, themes, clock, zone) ==
  LET lower == toLowerCase(content)
      thematic == thematicPools(lower, sentiment, themes)
      week == weekKey(clock, zone)
      seed == hashString(content \o <<"|">> \o week)
      combined == uniqueInOrder(base \o thematic)
      shuffled == seededShuffle(combined, seed)
  IN  [at |-> clock, week |-> week, shuffled |-> shuffled, picked |-> pick(shuffled, <<>>)]

\* diversifySuggestions(base, content, sentiment, themes), called at `clock`
\* on a machine of time zone `zone`: the week key, the shuffled candidates
\* and the suggestions returned.
diversifySuggestions(base, content, sentiment, themes, clock, zone) ==
  LET lower == toLowerCase(content)
      thematic == thematicPools(lower, sentiment, themes)
      week == weekKey(clock, zone)
      seed == hashString(content \o <<"|">> \o week)
      combined == uniqueInOrder(base \o thematic \o pools_general)
      shuffled == seededShuffle(combined, seed)
  IN  [at |-> clock, week |-> week, shuffled |-> shuffled, picked |-> pick(shuffled, <<>>)]

\* The most calls of diversifySuggestions the model follows.
MaxCalls == 2

\* The day (counted from EpochDate) of the first call: Friday 2024-12-27.
SuggestDay == 90

\* The days the clock moves on after the first call.
SuggestHorizon == 5

B_breathe == <<"B", "r", "e", "a", "t", "h", "e">>

B_breatheUpper == <<"B", "R", "E", "A", "T", "H", "E">>

B_breathePadded == <<" ", "b", "r", "e", "a", "t", "h", "e", " ">>

\* The suggestions of the language model: none; the same suggestion in
\* three spellings with an empty and a blank one.
BaseLists ==
  { <<>>,
    <<B_breathe, B_breatheUpper, <<>>, B_breathePadded, <<" ", " ">> >> }

\* The requests: the suggestions, the text, and the sentiment and themes
\* the classifier gave.
SuggestRequests ==
  [given : {TRUE}, base : BaseLists, content : {T_goodDay},
   sentiment : {"positive"}, themes : {<<>>}]
    \cup [given : {TRUE}, base : BaseLists, content : {T_workStress},
          sentiment : {"negative"}, themes : {<<"work", "family">>}]
    \cup [given : {TRUE}, base : BaseLists, content : {T_grateful},
          sentiment : {"neutral"}, themes : {<<"health", "creativity", "gratitude">>}]

InitSuggest ==
  /\ suggestions \in [request : SuggestRequests, calls : {<<>>}]
  /\ now \in {SuggestDay * TicksPerDay, SuggestDay * TicksPerDay + TicksPerDay - 1}
  /\ tz \in Zones
  /\ entries = <<>>
  /\ storage = <<>>
  /\ mounted = TRUE
  /\ currentStreak = 0
  /\ currentEntry = <<>>
  /\ isLoading = FALSE
  /\ inflight = {}
  /\ accepted = <<>>
  /\ analysis = NoCall
  /\ timeRange = "30d"
  /\ dashboard = NotRendered
  /\ selectedPeriod = "week"
  /\ insights = NotRendered
  /\ modal = ModalClosed
  /\ modalCalls = <<>>

\* The handler calls diversifySuggestions for the request.
Suggest ==
  /\ Len(suggestions.calls) < MaxCalls
  /\ LET r == suggestions.request
     IN  suggestions' = [suggestions EXCEPT !.calls =
           Append(@, diversifySuggestions(r.base, r.content, r.sentiment, r.themes,
                                          now, tz))]
  /\ UNCHANGED <<homeVars, timeRange, dashboard, selectedPeriod, insights, modalVars>>

\* A day passes.
DayPasses ==
  /\ now < (SuggestDay + SuggestHorizon) * TicksPerDay
  /\ now' = now + TicksPerDay
  /\ UNCHANGED <<entries, storage, currentEntry, isLoading, inflight, tz, mounted,
                 currentStreak, accepted, analysis>>
  /\ UNCHANGED viewVars

NextSuggest ==
  \/ Suggest
  \/ DayPasses

SpecSuggest == InitSuggest /\ [][NextSuggest]_vars

\* C18: diversifySuggestions returns at most 3 suggestions, none empty, each
\* trimmed, and no two equal when compared without regard to case.
C18_AtMostThreeDistinct ==
  \A c \in DOMAIN suggestions.calls :
    LET picked == suggestions.calls[c].picked
    IN  /\ Len(picked) <= 3
        /\ \A i \in DOMAIN picked :
             /\ picked[i] # <<>>
             /\ trim(picked[i]) = picked[i]
        /\ \A i, j \in DOMAIN picked :
             i # j => toLowerCase(trim(picked[i])) # toLowerCase(trim(picked[j]))

\* A call in which a suggestion was passed over: the first three candidates
\* are not the three returned, and one spelling of the repeated suggestion
\* is among them.
C18_Witness ==
  \E c \in DOMAIN suggestions.calls :
    LET call == suggestions.calls[c]
    IN  /\ Len(call.picked) = 3
        /\ call.picked # SubSeq(call.shuffled, 1, 3)
        /\ \E i \in 1..3 : toLowerCase(call.picked[i]) = toLowerCase(B_breathe)

\* The two instants lie in the same calendar week, Monday to Sunday.
SameCalendarWeek(t1, t2) == MondayOf(LocalDay(t1)) = MondayOf(LocalDay(t2))

ConsecutiveCalendarWeeks(t1, t2) == MondayOf(LocalDay(t2)) = MondayOf(LocalDay(t1)) + 7

\* C19: for one request, two calls at instants of the same calendar week
\* (Monday 00:00 to the end of Sunday, local time) use the same week key and
\* return the same list in the same order, and two calls in consecutive
\* calendar weeks use different week keys.
C19_StableWithinWeek ==
  \A c1, c2 \in DOMAIN suggestions.calls :
    LET a == suggestions.calls[c1]
        b == suggestions.calls[c2]
    IN  /\ SameCalendarWeek(a.at, b.at) => (a.week = b.week /\ a.picked = b.picked)
        /\ ConsecutiveCalendarWeeks(a.at, b.at) => a.week # b.week

\* ------------------------------------------------------------------------
\* The keyword classification, token by token
\* ------------------------------------------------------------------------

\* The positions at which a token (a maximal run of non-whitespace
\* characters) of the text begins.
TokenStarts(s) ==
  {i \in 1..Len(s) : s[i] \notin Whitespace /\ (i = 1 \/ s[i - 1] \in Whitespace)}

\* The last position of the token that begins at i.
TokenEnd(s, i) ==
  CHOOSE j \in i..Len(s) :
    /\ \A p \in i..j : s[p] \notin Whitespace
    /\ (j = Len(s) \/ s[j + 1] \in Whitespace)

\* The keyword is written, in any case, between positions i and j.
WrittenIn(s, i, j, keyword) ==
  \E p \in i..(j - Len(keyword) + 1) :
    \A q \in 1..Len(keyword) : toLowerCaseChar(s[p + q - 1]) = keyword[q]

\* The number of tokens that contain some keyword of the list.
TokensWith(s, keywords) ==
  Cardinality({i \in TokenStarts(s) :
                 \E k \in DOMAIN keywords : WrittenIn(s, i, TokenEnd(s, i), keywords[k])})

\* The classification came from a keyword fallback, the client's or the
\* server's.
ByKeywords ==
  /\ analysis.remote.net # "none"
  /\ ~(analysis.remote.net = "ok" /\ analysis.remote.llm = "json" /\ currentEntry # <<>>)

\* C20: the keyword classifier counts each token at most once as positive
\* (it contains some positive keyword) and at most once as negative (it
\* contains some negative keyword), a token with keywords of both lists on
\* both sides; the sentiment is positive when there are more positive
\* tokens, negative when there are more negative ones, mixed when the counts
\* are equal and not 0, neutral when both are 0.
C20_KeywordDecisionRule ==
  ByKeywords =>
    LET p == TokensWith(currentEntry, positiveWords)
        n == TokensWith(currentEntry, negativeWords)
        r == analysis.promise.value
    IN  /\ analysis.promise.state = "fulfilled"
        /\ p > n => r.sentiment = "positive"
        /\ n > p => r.sentiment = "negative"
        /\ (p = n /\ p > 0) => r.sentiment = "mixed"
        /\ (p = 0 /\ n = 0) => r.sentiment = "neutral"
        /\ r.emotionalIntensity = Min(p + n, 10)

\* 'love/bad job': one token counted on both sides.
C20_Witness ==
  /\ ByKeywords
  /\ currentEntry = T_loveBad
  /\ analysis.remote.net = "ok"
  /\ analysis.promise.value.sentiment = "mixed"
  /\ analysis.promise.value.emotionalIntensity = 2

\* ------------------------------------------------------------------------
\* The themes and key topics of a classification result
\* ------------------------------------------------------------------------

\* The rows of a trigger table with a trigger in the lower-cased text.
FiredRows(text, table) ==
  {i \in DOMAIN table :
     \E k \in DOMAIN table[i].triggers : includes(toLowerCase(text), table[i].triggers[k])}

\* C21: every classification result, validated from the remote answer or
\* produced by a keyword fallback, carries at most 5 themes, also for a text
\* in which more than 5 theme triggers fire.
C21_AtMostFiveThemes ==
  analysis.promise.state = "fulfilled" => Len(analysis.promise.value.themes) <= 5

\* The handler validated the answer of the language model.
RemoteValidated ==
  /\ analysis.remote.net = "ok"
  /\ analysis.remote.llm = "json"
  /\ currentEntry # <<>>

\* C22: when the remote answer parses and its keyTopics is not an array, the
\* validated keyTopics are the first 3 of the validated themes; keyTopics
\* never has more than 3 items.
C22_KeyTopicsFromThemes ==
  analysis.promise.state = "fulfilled" =>
    /\ Len(analysis.promise.value.keyTopics) <= 3
    /\ (RemoteValidated /\ ~analysis.remote.answer.keyTopics.isArray) =>
         analysis.promise.value.keyTopics =
           SubSeq(analysis.promise.value.themes, 1,
                  Min(3, Len(analysis.promise.value.themes)))

\* The trigger table the classification is specified with: the labels in
\* the order they are to be emitted, each with its substrings.
StatedThemeTriggers ==
  << [label |-> "work", triggers |-> << <<"w", "o", "r", "k">>, <<"j", "o", "b">>, <<"c", "a", "r", "e", "e", "r">> >>],
     [label |-> "family", triggers |-> << <<"f", "a", "m", "i", "l", "y">>, <<"p", "a", "r", "e", "n", "t">>, <<"c", "h", "i", "l", "d">> >>],
     [label |-> "relationships", triggers |-> << <<"f", "r", "i", "e", "n", "d">>, <<"r", "e", "l", "a", "t", "i", "o", "n", "s", "h", "i", "p">>, <<"l", "o", "v", "e">> >>],
     [label |-> "stress", triggers |-> << <<"s", "t", "r", "e", "s", "s">>, <<"a", "n", "x", "i", "e", "t", "y">>, <<"w", "o", "r", "r", "y">> >>],
     [label |-> "health", triggers |-> << <<"h", "e", "a", "l", "t", "h">>, <<"e", "x", "e", "r", "c", "i", "s", "e">>, <<"s", "l", "e", "e", "p">> >>],
     [label |-> "creativity", triggers |-> << <<"c", "r", "e", "a", "t", "i", "v", "e">>, <<"a", "r", "t">>, <<"m", "u", "s", "i", "c">> >>],
     [label |-> "growth", triggers |-> << <<"l", "e", "a", "r", "n">>, <<"g", "r", "o", "w">>, <<"i", "m", "p", "r", "o", "v", "e">> >>],
     [label |-> "gratitude", triggers |-> << <<"t", "h", "a", "n", "k", "f", "u", "l">>, <<"g", "r", "a", "t", "e", "f", "u", "l">>, <<"b", "l", "e", "s", "s", "e", "d">> >>] >>

\* The labels of the stated table whose triggers occur in the text, in the
\* table's order.
StatedThemes(text) ==
  LET fired == FiredRows(text, StatedThemeTriggers)
      RECURSIVE from(_)
      from(i) == IF i > Len(StatedThemeTriggers) THEN <<>>
                 ELSE IF i \in fired THEN <<StatedThemeTriggers[i].label>> \o from(i + 1)
                 ELSE from(i + 1)
  IN  from(1)

\* C23: the keyword classifier, in the client's fallback and in the server's
\* alike, emits the labels of the stated table whose triggers occur in the
\* lower-cased text, each once and in the table's order (the first 5 of them
\* when the list is capped).
C23_ThemesByStatedTable ==
  (ByKeywords /\ StatedThemes(currentEntry) # <<>>) =>
    LET stated == StatedThemes(currentEntry)
        themes == analysis.promise.value.themes
    IN  \/ themes = stated
        \/ themes = SubSeq(stated, 1, Min(5, Len(stated)))

\* No row of any of the trigger tables has a trigger in the text.
NoTriggerFires(text) ==
  /\ FiredRows(text, StatedThemeTriggers) = {}
  /\ FiredRows(text, clientThemeTriggers) = {}
  /\ FiredRows(text, serverThemeTriggers) = {}

\* C24: a result of the keyword classifier never has an empty themes list;
\* when no trigger occurs in the text its themes are ['reflection'] alone.
C24_ReflectionWhenNoTheme ==
  ByKeywords =>
    /\ analysis.promise.value.themes # <<>>
    /\ NoTriggerFires(currentEntry) => analysis.promise.value.themes = <<"reflection">>

\* ------------------------------------------------------------------------
\* The dashboard's window and the agreement of its views
\* ------------------------------------------------------------------------

\* Local midnight of the day windowDays before today.
WindowStart == (Today - daysOfRange(timeRange)) * TicksPerDay - tz

InWindow(entry) == parseISOString(entry.timestamp) >= WindowStart

\* C25: the dashboard aggregates exactly the entries written at or after
\* local midnight of the day windowDays before today, in their order, and
\* totalEntries is their number; an entry written at that very instant is
\* among them, one written just before it is not.
C25_WindowIsInclusive ==
  dashboard.rendered =>
    /\ dashboard.filteredEntries = SelectSeq(entries, InWindow)
    /\ dashboard.stats.totalEntries =
         Cardinality({i \in DOMAIN entries : InWindow(entries[i])})

\* An entry at the window's first instant is counted, one a tick earlier is
\* not.
C25_Witness ==
  /\ dashboard.rendered
  /\ Len(entries) = 2
  /\ parseISOString(entries[1].timestamp) = WindowStart
  /\ parseISOString(entries[2].timestamp) = WindowStart - 1
  /\ dashboard.filteredEntries = <<entries[1]>>
  /\ dashboard.stats.totalEntries = 1

\* ------------------------------------------------------------------------
\* The patterns of the period insight
\* ------------------------------------------------------------------------

\* The entries of a sentiment among those the insight was computed from.
PeriodCount(s) ==
  Cardinality({i \in DOMAIN insights.periodEntries : insights.periodEntries[i].sentiment = s})

\* The places of a note in the list of patterns.
PlacesOf(note) == {i \in DOMAIN insights.insights : insights.insights[i] = note}

\* C26: the pattern 'more positive emotions this period' is emitted if and
\* only if the period has more positive than negative entries, a sentiment
\* without entries counting 0; when emitted it comes before the note on work,
\* which comes before the note on relationships.
C26_MorePositivePattern ==
  insights.rendered =>
    /\ PlacesOf(MorePositive) # {} <=> PeriodCount("positive") > PeriodCount("negative")
    /\ \A i \in PlacesOf(MorePositive) :
         \A j \in PlacesOf(WorkProminent) \cup PlacesOf(RelationshipsImportant) : i < j
    /\ \A i \in PlacesOf(WorkProminent) : \A j \in PlacesOf(RelationshipsImportant) : i < j

\* The entries counted in the first k points of the trend.
RECURSIVE TrendTotal(_)
TrendTotal(k) ==
  IF k = 0 THEN 0
  ELSE LET point == dashboard.sentimentTrendData[k]
       IN  TrendTotal(k - 1) + point.positive + point.negative + point.neutral + point.mixed

\* C27: the dashboard's views agree: every entry counted in totalEntries is
\* counted in exactly one point of the trend, so the counts of all points
\* add up to totalEntries.
C27_TrendAddsUpToTotal ==
  dashboard.rendered =>
    TrendTotal(Len(dashboard.sentimentTrendData)) = dashboard.stats.totalEntries

\* ------------------------------------------------------------------------
\* One save at a time
\* ------------------------------------------------------------------------

\* C28: saves are mutually exclusive: while a saveEntry call is in flight
\* (isLoading is true) no step, by the Save button or by the Cmd+Enter
\* shortcut, starts another saveEntry call.
C28_SavesMutuallyExclusive ==
  [][isLoading => (accepted' = accepted /\ inflight' \subseteq inflight)]_vars

\* ------------------------------------------------------------------------
\* The entry modal: openEntryModal and closeEntryModal
\* ------------------------------------------------------------------------

\* The most words the insight of the client's fallback counts.
MaxWords == 9

\* The characters of a piece of an insight text: the texts the classifier
\* answers with, the sentiment names and the numerals of the word count.
lettersOf(piece) ==
  CASE piece = "A gentle insight" ->
         <<"A", " ", "g", "e", "n", "t", "l", "e", " ", "i", "n", "s", "i", "g", "h", "t">>
    [] piece = "Thank you for sharing your thoughts. Every entry helps you understand yourself better." ->
         <<"T", "h", "a", "n", "k", " ", "y", "o", "u", " ", "f", "o", "r", " ", "s", "h", "a", "r", "i", "n", "g", " ", "y", "o", "u", "r", " ", "t", "h", "o", "u", "g", "h", "t", "s", ".", " ", "E", "v", "e", "r", "y", " ", "e", "n", "t", "r", "y", " ", "h", "e", "l", "p", "s", " ", "y", "o", "u", " ", "u", "n", "d", "e", "r", "s", "t", "a", "n", "d", " ", "y", "o", "u", "r", "s", "e", "l", "f", " ", "b", "e", "t", "t", "e", "r", ".">>
    [] piece = "This entry shows " ->
         <<"T", "h", "i", "s", " ", "e", "n", "t", "r", "y", " ", "s", "h", "o", "w", "s", " ">>
    [] piece = " emotions with " ->
         <<" ", "e", "m", "o", "t", "i", "o", "n", "s", " ", "w", "i", "t", "h", " ">>
    [] piece = " words." ->
         <<" ", "w", "o", "r", "d", "s", ".">>
    [] piece = "positive" ->
         <<"p", "o", "s", "i", "t", "i", "v", "e">>
    [] piece = "negative" ->
         <<"n", "e", "g", "a", "t", "i", "v", "e">>
    [] piece = "neutral" ->
         <<"n", "e", "u", "t", "r", "a", "l">>
    [] piece = "mixed" ->
         <<"m", "i", "x", "e", "d">>
    [] OTHER -> digitsOf(CHOOSE n \in 0..MaxWords : ToString(n) = piece)

\* The characters of an insight text.
RECURSIVE textOf(_)
textOf(insightsText) ==
  IF insightsText = <<>> THEN <<>>
  ELSE lettersOf(Head(insightsText)) \o textOf(Tail(insightsText))

ModalFallbackInsight ==
  <<"Thank you for reflecting. Consider noting one small win and one gentle next step.">>

W_gratitude == <<"g", "r", "a", "t", "i", "t", "u", "d", "e">>

W_family == <<"f", "a", "m", "i", "l", "y">>

\* const deriveSuggestions = (entry, insightsText) => ...
deriveSuggestions(entry, insightsText) ==
  LET text == toLowerCase(entry.content \o <<" ">> \o textOf(insightsText))
      tips1 == IF entry.sentiment = "negative" \/ includes(text, S_stress)
                  \/ includes(text, S_anxiety)
               THEN <<"Try a 5-minute breathing break to ground yourself.",
                      "Write down one small thing that went okay today.">>
               ELSE <<>>
      tips2 == IF entry.sentiment = "positive" \/ includes(text, S_grateful)
                  \/ includes(text, W_gratitude)
               THEN Append(tips1, "Capture a gratitude note to revisit on tougher days.")
               ELSE tips1
      tips3 == IF "work" \in Range(entry.themes)
               THEN Append(tips2, "Set one clear boundary for work-life balance tomorrow.")
               ELSE tips2
      tips4 == IF "family" \in Range(entry.themes) \/ includes(text, W_family)
               THEN Append(tips3, "Plan a short check-in or kind message to someone you care about.")
               ELSE tips3
      tips5 == IF Len(tips4) = 0
               THEN <<"Note one intention for tomorrow and one thing you appreciate about today.">>
               ELSE tips4
  IN  slice(uniqueInOrder(tips5), 0, 3)

\* openEntryModal(entry) up to its `await`: the modal shows the entry with
\* its cached insight; without one the call waits for analyzeJournalEntry.
openEntryModal(entry) ==
  IF entry.aiInsights = <<>>
  THEN /\ modal' = [selectedEntry |-> entry, modalAnalysis |-> <<>>,
                    modalSuggestions |-> <<>>, modalLoading |-> TRUE]
       /\ modalCalls' = Append(modalCalls, [entry |-> entry])
  ELSE /\ modal' = [selectedEntry |-> entry, modalAnalysis |-> entry.aiInsights,
                    modalSuggestions |-> deriveSuggestions(entry, entry.aiInsights),
                    modalLoading |-> FALSE]
       /\ UNCHANGED modalCalls

\* closeEntryModal
closeEntryModal ==
  /\ modal' = ModalClosed
  /\ UNCHANGED modalCalls

\* The most openEntryModal calls waiting at once.
MaxModalCalls == 2

\* onClick={() => openEntryModal(entry)} on an entry card; the cards are
\* under the overlay while the modal is open.
OpenEntryModal(entry) ==
  /\ modal.selectedEntry = Null
  /\ entry.aiInsights = <<>> => Len(modalCalls) < MaxModalCalls
  /\ openEntryModal(entry)
  /\ UNCHANGED <<homeVars, timeRange, dashboard, selectedPeriod, insights, suggestions>>

\* onClick={closeEntryModal} on the overlay or on the close button.
CloseEntryModal ==
  /\ modal.selectedEntry # Null
  /\ closeEntryModal
  /\ UNCHANGED <<homeVars, timeRange, dashboard, selectedPeriod, insights, suggestions>>

\* The rest of openEntryModal, when the promise of analyzeJournalEntry
\* settles: the try, the catch and the finally set the modal's state for the
\* entry of the call.
ModalAnalysisSettles(k, remote) ==
  \E promise \in {analyzeJournalEntry(modalCalls[k].entry.content, remote)} :
    LET entry == modalCalls[k].entry
        text == IF promise.state = "fulfilled" THEN promise.value.insights
                ELSE ModalFallbackInsight
        tips == IF promise.state = "fulfilled"
                THEN deriveSuggestions(entry, promise.value.insights)
                ELSE deriveSuggestions(entry, <<>>)
    IN  /\ modal' = [modal EXCEPT !.modalAnalysis = text,
                                  !.modalSuggestions = tips,
                                  !.modalLoading = FALSE]
        /\ modalCalls' = SubSeq(modalCalls, 1, k - 1) \o SubSeq(modalCalls, k + 1, Len(modalCalls))
        /\ UNCHANGED <<homeVars, timeRange, dashboard, selectedPeriod, insights, suggestions>>

\* The remote outcomes an analysis for the modal may meet: a failed call,
\* the server's own fallback and an answer of the language model.
ModalOutcomes ==
  {r \in RemoteOutcomes :
     \/ r.net = "networkError"
     \/ r.net = "ok" /\ r.llm = "throws"
     \/ r.net = "ok" /\ r.llm = "json" /\ r.answer.sentiment = "positive"}

\* The entries listed on the page: one whose classification is cached, and
\* entries without a cached insight (saved before insights were kept, or
\* still being classified).
ModalSamples ==
  { [id |-> "1", content |-> T_goodDay, aiInsights |-> <<"A gentle insight">>,
     sentiment |-> "positive", themes |-> <<"work">>],
    [id |-> "2", content |-> T_workStress, aiInsights |-> <<>>,
     sentiment |-> "neutral", themes |-> <<>>],
    [id |-> "3", content |-> T_family, aiInsights |-> <<>>,
     sentiment |-> "negative", themes |-> <<"family">>] }

ModalEntry(sample) ==
  [id |-> sample.id, content |-> sample.content,
   timestamp |-> toISOString(OpenDay * TicksPerDay),
   sentiment |-> sample.sentiment, themes |-> sample.themes,
   wordCount |-> Len(words(sample.content)), aiInsights |-> sample.aiInsights]

ModalLists ==
  {es \in UNION {[1..n -> {ModalEntry(sample) : sample \in ModalSamples}] : n \in 1..2} :
     \A i, j \in DOMAIN es : i # j => es[i].id # es[j].id}

InitModal ==
  /\ entries \in ModalLists
  /\ storage = entries
  /\ now = OpenDay * TicksPerDay
  /\ tz = 0
  /\ mounted = TRUE
  /\ currentStreak = calculateCurrentStreak(entries, now, tz)
  /\ currentEntry = <<>>
  /\ isLoading = FALSE
  /\ inflight = {}
  /\ accepted = <<>>
  /\ analysis = NoCall
  /\ ViewsIdle

NextModal ==
  \/ \E i \in 1..Min(3, Len(entries)) : OpenEntryModal(entries[i])
  \/ CloseEntryModal
  \/ \E k \in DOMAIN modalCalls, remote \in ModalOutcomes : ModalAnalysisSettles(k, remote)

SpecModal == InitModal /\ [][NextModal]_vars

\* The insight texts an analysis of the entry may give: the cached one, or
\* what analyzeJournalEntry answers for the entry's text.
InsightTextsOf(entry) ==
  IF entry.aiInsights # <<>> THEN {entry.aiInsights}
  ELSE {analyzeJournalEntry(entry.content, remote).value.insights : remote \in ModalOutcomes}

\* C29: the modal never shows the analysis of another entry: while an entry
\* is selected and loading has finished, modalAnalysis and modalSuggestions
\* are those computed for the selected entry; after closeEntryModal both
\* stay empty until the next open, also when an analysis requested for an
\* entry opened before resolves later.
C29_ModalShowsSelectedEntry ==
  /\ modal.selectedEntry = Null =>
       /\ modal.modalAnalysis = <<>>
       /\ modal.modalSuggestions = <<>>
       /\ ~modal.modalLoading
  /\ (modal.selectedEntry # Null /\ ~modal.modalLoading) =>
       \E text \in InsightTextsOf(modal.selectedEntry) :
         /\ modal.modalAnalysis = text
         /\ modal.modalSuggestions = deriveSuggestions(modal.selectedEntry, text)

\* ------------------------------------------------------------------------
\* The number of suggestions
\* ------------------------------------------------------------------------

\* C30: diversifySuggestions returns exactly 3 suggestions for every base
\* list, text, sentiment and themes: the shuffle keeps every candidate, each
\* once, and the general pool, always among the candidates, has at least 3
\* distinct non-empty strings.
C30_ExactlyThree ==
  \A c \in DOMAIN suggestions.calls :
    LET call == suggestions.calls[c]
    IN  /\ Len(call.picked) = 3
        /\ Range(pools_general) \cup Range(suggestions.request.base) \subseteq Range(call.shuffled)
        /\ Cardinality(Range(call.shuffled)) = Len(call.shuffled)
        /\ Cardinality({toLowerCase(trim(s)) : s \in Range(pools_general)} \ {<<>>}) >= 3

\* A call with no suggestion given and no thematic pool: the three
\* suggestions come from the general pool alone.
C30_Witness ==
  \E c \in DOMAIN suggestions.calls :
    LET call == suggestions.calls[c]
    IN  /\ suggestions.request.base = <<>>
        /\ Range(call.shuffled) = Range(pools_general)
        /\ Len(call.picked) = 3
        /\ Range(call.picked) \subseteq Range(pools_general)

====
